---- MODULE Spec2Model ----
(***************************************************************************)
(* Model of the megaforwarder oracle node: the Task coordinator            *)
(* (src/core/task/Task.ts), the peer client (src/core/task/client.ts) and  *)
(* the peer server routes /task/prepare and /task/validate.                *)
(*                                                                         *)
(* Nodes are identified by their public key.  Key 0 is the local node      *)
(* (the primary that runs the Task); keys 1..NumPeers are config.peers in  *)
(* the order of the configuration file.  The private key of node n is      *)
(* written n as well: signData(buf, n) verifies under public key n only.   *)
(***************************************************************************)
EXTENDS Integers, Sequences, FiniteSets, TLC

\* ---------------------------------------------------------------- bounds
NumPeers == 2
MaxMinSig == 4
NumListeners == 2
MaxDelay == 2
MaxBlock == 2
MaxLogIndex == 1
MaxEvents == 3
NumCallers == 2
MaxLimit == 1
MaxRateLimited == 2
MaxArrayLen == 2
MaxEntries == 2
MaxChanges == 2

\* ------------------------------------------------------------ the config
Self == 0
Peers == 1..NumPeers
Keys == 0..NumPeers
configPeers == [i \in 1..NumPeers |-> i]

\* config/OracleConfig.ts:53  this.peerTimeoutMs = options.peerTimeoutMs || 30000:
\* the option of the configuration file, and the field the constructor
\* derives from it (a falsy option, 0 included, gives the default).
peerTimeoutMsOption == 0
DefaultPeerTimeoutMs == 30000
peerTimeoutMs ==
    IF peerTimeoutMsOption = 0 THEN DefaultPeerTimeoutMs ELSE peerTimeoutMsOption

RegisteredPlugin == "erc721"
UnknownPlugin == "nope"
PluginIds == {RegisteredPlugin, UnknownPlugin}

\* --------------------------------------------------------------- results
Ok(v) == [kind |-> "ok", type |-> "", value |-> v]
Err(t) == [kind |-> "err", type |-> t, value |-> ""]
NoResult == [kind |-> "none", type |-> "", value |-> ""]
\* An exception that leaves start() instead of a Result.
Thrown == [kind |-> "thrown", type |-> "", value |-> ""]

Undefined == "undefined"
Output == "out"

\* Prepared values of a plugin: one truthy value and one falsy one (the
\* empty string), which Task.ts tests with `!value`.
Falsy == ""
PreparedValues == {"p1", Falsy}

PrepareErrors == {"permanent_error", "prepare_error"}
ProcessErrors == {"process_error", "non_error"}
ValidateErrors == {"validation_error"}
ExecuteErrors == {"execute_error"}

\* ------------------------------------------------------ codec and crypto
\* encode() prefixes the payload with its one-byte type marker; decode()
\* dispatches on the marker and throws on an unknown one or an empty buffer.
StringMarker == 1
ArrayMarker == 7
UnknownMarker == 9
NoBuffer == <<>>
EncodeString(d) == <<StringMarker, d>>
EncodeArray(a) == <<ArrayMarker, a>>
Present(buf) == Len(buf) > 0
DecodeThrows(buf) == Len(buf) = 0 \/ buf[1] \notin 0..8
Decode(buf) == buf[2]

hashData(buf) == <<"sha256", buf>>
signData(buf, privateKey) ==
    [present |-> TRUE, signer |-> privateKey, over |-> hashData(buf)]
verifySignature(buf, sig, publicKey) ==
    sig.signer = publicKey /\ sig.over = hashData(buf)

\* A well-formed 64-byte signature that verifies under no key, and the
\* absent signature field of a JSON body.
BadSignature == [present |-> TRUE, signer |-> -1, over |-> hashData(EncodeString("junk"))]
NoSignature == [present |-> FALSE, signer |-> -1, over |-> hashData(EncodeString("none"))]

VARIABLES
    minSignaturesRequired,  \* config.minSignaturesRequired
    pc,                     \* position of Task.start()
    prepareResults,         \* the prepareResults array of runPreparePhase
    rpc,                    \* state of each peer's preparePromise
    timerFired,             \* the prepareTimeoutPromise has rejected
    result,                 \* what Task.start() returned
    data,                   \* the aggregate carried through validate
    validationPeers,        \* peers still to visit in runValidatePhase
    inflight,               \* the /task/validate request awaiting its answer
    served,                 \* the last /task/validate request a node handled
    completedTasksTotal,    \* the completed_tasks_total counter
    calls,                  \* history: plugin calls and /task/validate requests, in order
    oks,                    \* history: steps that returned ok, in order
    prepareOutcome,         \* history: what the local plugin.prepare returned
    processOutcome,         \* history: what plugin.process returned
    collected,              \* history: records held when the Prepare phase ended
    prepareRequests,        \* history: peers a /task/prepare was sent to
    validateRequests,       \* history: peers a /task/validate was sent to
    processInput,           \* history: the public keys of the list given to plugin.process
    executeInput,           \* history: the aggregate given to plugin.execute
    submitted,              \* history: the status the chain answered the submission with
    response,               \* the status POST /task answered with
    \* ListenerRegistry
    registered,             \* the listener has an entry in scheduledListeners
    registryRunning,        \* ListenerRegistry.running: start() has run
    monitored,              \* start() spawned the monitoring loop of the entry
    running,                \* ScheduledListener.running
    nextRunTime,            \* ScheduledListener.nextRunTime - Date.now(), floored at 0
    inProgress,             \* history: invocations of listener.run() not yet ended
    lastRun,                \* history: how the last run() of the listener ended
    returned,               \* history: the delay the last completed run() returned
    \* ERC721Listener, for one contract
    contractUnit,           \* contract.unit
    batchSize,              \* this._batchSize
    blockHeightIncrement,   \* this._blockHeightIncrement
    chainEvents,            \* the Transfer logs of the contract on the chain
    lastSearchedBlockNumber, \* this._searchedBlockNumbers.get(contractAddress)
    listenerPc,             \* position of ERC721Listener.run()
    window,                 \* startBlock and endBlock of the run
    sortedEvents,           \* the events of the window still to be handed out
    dispatchCount,          \* history: the Tasks each event was handed to (capped)
    dispatchLog,            \* history: the events handed to Tasks in this run, in order
    lastBatch,              \* history: the input of the last Task
    failedEvents,           \* history: events whose Task failed, not handed out since
    anyFailed,              \* history: a handleBatch has returned an error
    nextRun,                \* history: what the last run() returned
    \* Throttler, for one identifier
    maxCallsPerSecond,      \* this.maxCallsPerSecond
    callCount,              \* this.callCount
    windowAge,              \* Date.now() - this.lastWindowStart, capped past windowMs
    consecutiveErrors,      \* this.consecutiveErrors
    backoffMs,              \* this.backoffMs
    callerPc,               \* position of each caller's execute()
    sleepLeft,              \* time left of the sleep each caller awaits
    invocations,            \* history: times fn was invoked for the call (capped)
    queued,                 \* history: the call waited in acquireSlot
    fnOutcome,              \* history: how the last invocation of fn ended
    returnedOutcome,        \* what execute() gave the caller
    startAges,              \* history: time since each start of fn in the last windowMs
    rateLimited,            \* history: 429 failures so far
    \* the codec on the way of a prepare output: peer, primary, peer
    codecValue,             \* result.value of plugin.prepare at the peer
    codecOther,             \* the same value built with another insertion order
    codecPc,                \* how far the output has travelled
    codecBytes,             \* encode(result.value)
    codecOtherBytes,        \* encode of the other value
    codecDecoded,           \* the primary's decode(encodedData)
    codecSignature,         \* the peer's signData(encodedData)
    codecStatus,            \* the status /task/validate answered with
    \* POST /helius/webhook, one request
    whAuthorized,           \* the Authorization header equals the authKey
    whChanges,              \* the tokenBalanceChanges of the body, flattened
    whCacheAtStart,         \* history: the cache keys present when the request came
    whCache,                \* the solana_balance_updater_ keys in the cache
    whQueue,                \* tokenTransfers still to be looked at by the loop
    whTasks,                \* history: the inputs of the Tasks started, in order
    whPc,                   \* position of the handler
    whStatus                \* the status the route answered with

registryVars == <<registered, registryRunning, monitored, running, nextRunTime,
                  inProgress, lastRun, returned>>

listenerVars == <<contractUnit, batchSize, blockHeightIncrement, chainEvents,
                  lastSearchedBlockNumber, listenerPc, window, sortedEvents,
                  dispatchCount, dispatchLog, lastBatch, failedEvents, anyFailed,
                  nextRun>>

throttleVars == <<maxCallsPerSecond, callCount, windowAge, consecutiveErrors,
                  backoffMs, callerPc, sleepLeft, invocations, queued, fnOutcome,
                  returnedOutcome, startAges, rateLimited>>

codecVars == <<codecValue, codecOther, codecPc, codecBytes, codecOtherBytes,
               codecDecoded, codecSignature, codecStatus>>

webhookVars == <<whAuthorized, whChanges, whCacheAtStart, whCache, whQueue,
                 whTasks, whPc, whStatus>>

utilVars == <<throttleVars, codecVars, webhookVars>>

vars == <<minSignaturesRequired, pc, prepareResults, rpc, timerFired, result,
          data, validationPeers, inflight, served, completedTasksTotal,
          calls, oks, prepareOutcome, processOutcome, collected,
          prepareRequests, validateRequests, processInput, executeInput,
          submitted, response, registryVars, listenerVars, utilVars>>

taskVars == <<minSignaturesRequired, pc, prepareResults, rpc, timerFired,
              result, data, validationPeers, inflight, completedTasksTotal,
              calls, oks, prepareOutcome, processOutcome, collected,
              prepareRequests, validateRequests, processInput, executeInput,
              submitted, response>>

Step(s, k) == [step |-> s, peer |-> k]

NoRequest == [peer |-> -1, pluginId |-> "", input |-> <<>>,
              preparedData |-> "", signature |-> NoSignature]
NotServed == [node |-> -1, pluginId |-> "", preparedData |-> "",
              signature |-> NoSignature, status |-> 0, error |-> "",
              encodedData |-> NoBuffer, pluginCalled |-> FALSE]

\* ------------------------------------------------------- initial states
Listeners == 1..NumListeners

\* core/listener/ListenerRegistry.ts:14-19  a registry without entries
RegistryInit ==
    /\ registered = [l \in Listeners |-> FALSE]
    /\ registryRunning = FALSE
    /\ monitored = [l \in Listeners |-> FALSE]
    /\ running = [l \in Listeners |-> FALSE]
    /\ nextRunTime = [l \in Listeners |-> 0]
    /\ inProgress = [l \in Listeners |-> 0]
    /\ lastRun = [l \in Listeners |-> "none"]
    /\ returned = [l \in Listeners |-> 0]

\* An event of the chain: the fields of an ethers Log the listener reads.
Event(b, i) == [blockNumber |-> b, index |-> i]
EventUniverse == {Event(b, i) : b \in 0..MaxBlock, i \in 0..MaxLogIndex}

\* this._searchedBlockNumbers has no entry for the contract
NeverSearched == -2

\* listeners/ERC721Listener.ts:38-49  the listener after construction, for
\* a configuration and a chain given by unit, size, increment and events
ListenerConstructed(unit, size, increment, events) ==
    /\ contractUnit = unit
    /\ batchSize = size
    /\ blockHeightIncrement = increment
    /\ chainEvents = events
    /\ lastSearchedBlockNumber = NeverSearched
    /\ listenerPc = "idle"
    /\ window = <<0, 0>>
    /\ sortedEvents = <<>>
    /\ dispatchCount = [e \in EventUniverse |-> 0]
    /\ dispatchLog = <<>>
    /\ lastBatch = <<>>
    /\ failedEvents = {}
    /\ anyFailed = FALSE
    /\ nextRun = "none"

\* The listener of a node is left out of the specifications of the Task.
ListenerParked == ListenerConstructed(0, 1, 1, {})

ListenerInit ==
    \E unit \in 0..1 : \E size \in 1..2 : \E increment \in 1..2 :
        \E events \in {S \in SUBSET EventUniverse : Cardinality(S) <= MaxEvents} :
            ListenerConstructed(unit, size, increment, events)

\* ---- the codec (util/encoder.ts) on JavaScript values
\* A value carries its type, a payload of integers (v), and for arrays
\* and objects its items, an object its keys as well: a string is the
\* sequence of its UTF-16 code units, a number its sign and magnitude (so
\* that -0 is a value of its own), an object the sequence of its own
\* enumerable entries in the order of Object.entries.
Scalar(type, payload) == [t |-> type, v |-> payload, keys |-> <<>>, items |-> <<>>]
Null == Scalar("null", <<>>)
Str(s) == Scalar("string", s)
Num(sign, mag) == Scalar("number", <<sign, mag>>)
Bool(b) == Scalar("boolean", IF b THEN <<1>> ELSE <<0>>)
BigInt(n) == Scalar("bigint", <<n>>)
Buf(bytes) == Scalar("buffer", bytes)
DateOf(ms) == Scalar("date", <<ms>>)
Arr(items) == [t |-> "array", v |-> <<>>, keys |-> <<>>, items |-> items]
Obj(entries) ==
    [t |-> "object", v |-> <<>>,
     keys |-> [i \in 1..Len(entries) |-> entries[i][1]],
     items |-> [i \in 1..Len(entries) |-> entries[i][2]]]
DecodeError == Scalar("throws", <<>>)

\* Object.entries(x)
Entries(x) == [i \in 1..Len(x.keys) |-> <<x.keys[i], x.items[i]>>]

\* Buffer.writeUInt32BE and Buffer.readUInt32BE (offset counted from 0)
writeUInt32BE(n) ==
    <<(n \div 16777216) % 256, (n \div 65536) % 256, (n \div 256) % 256, n % 256>>
readUInt32BE(buf, offset) ==
    buf[offset + 1] * 16777216 + buf[offset + 2] * 65536
        + buf[offset + 3] * 256 + buf[offset + 4]

\* buf.subarray(start, end)
subarray(buf, start, end) ==
    SubSeq(buf, start + 1, IF end > Len(buf) THEN Len(buf) ELSE end)

\* The decimal text of a natural number, as ASCII bytes, and back.
RECURSIVE Digits(_)
Digits(n) == IF n < 10 THEN <<48 + n>> ELSE Digits(n \div 10) \o <<48 + (n % 10)>>

RECURSIVE ParseDigits(_)
ParseDigits(text) ==
    IF text = <<>> THEN 0
    ELSE 10 * ParseDigits(SubSeq(text, 1, Len(text) - 1)) + (text[Len(text)] - 48)

\* Number.prototype.toString of an integer: -0 prints as "0"
NumberToString(n) ==
    IF n[2] = 0 THEN <<48>>
    ELSE IF n[1] < 0 THEN <<45>> \o Digits(n[2]) ELSE Digits(n[2])

\* Number(text) of the decimal text of an integer; Number("") is 0
NumberFromString(text) ==
    IF text = <<>> THEN <<1, 0>>
    ELSE IF text[1] = 45 THEN <<-1, ParseDigits(Tail(text))>>
    ELSE <<1, ParseDigits(text)>>

\* BigInt.prototype.toString, and getTime().toString() of a Date
IntToString(n) == IF n < 0 THEN <<45>> \o Digits(0 - n) ELSE Digits(n)

\* BigInt(text), and the time value of new Date(Number(text))
IntFromString(text) ==
    IF text = <<>> THEN 0
    ELSE IF text[1] = 45 THEN 0 - ParseDigits(Tail(text))
    ELSE ParseDigits(text)

\* Buffer.from(string, 'utf-8'): a code unit that is a surrogate without its
\* pair is written as U+FFFD (surrogate pairs are not among the strings of
\* the model).
ReplacementChar == 65533
Utf8Unit(c) ==
    IF c < 128 THEN <<c>>
    ELSE IF c < 2048 THEN <<192 + (c \div 64), 128 + (c % 64)>>
    ELSE IF c >= 55296 /\ c <= 57343 THEN <<239, 191, 189>>
    ELSE <<224 + (c \div 4096), 128 + ((c \div 64) % 64), 128 + (c % 64)>>

RECURSIVE Utf8(_)
Utf8(s) == IF s = <<>> THEN <<>> ELSE Utf8Unit(Head(s)) \o Utf8(Tail(s))

\* buf.toString('utf-8'): sequences of one, two and three bytes; any other
\* byte reads as U+FFFD
RECURSIVE Utf8ToString(_)
Utf8ToString(b) ==
    IF b = <<>> THEN <<>>
    ELSE IF b[1] < 128 THEN <<b[1]>> \o Utf8ToString(Tail(b))
    ELSE IF b[1] >= 192 /\ b[1] < 224 /\ Len(b) >= 2
    THEN <<(b[1] - 192) * 64 + (b[2] - 128)>> \o Utf8ToString(SubSeq(b, 3, Len(b)))
    ELSE IF b[1] >= 224 /\ b[1] < 240 /\ Len(b) >= 3
    THEN <<(b[1] - 224) * 4096 + (b[2] - 128) * 64 + (b[3] - 128)>>
             \o Utf8ToString(SubSeq(b, 4, Len(b)))
    ELSE <<ReplacementChar>> \o Utf8ToString(Tail(b))

\* keyA.localeCompare(keyB, undefined, { numeric: true }) on keys made of
\* lower-case ASCII letters, digits and '_': a run of digits compares by
\* its numeric value (leading zeros do not count), any other character by
\* its weight: '_' before the digits, the digits before the letters.  The
\* result is negative, 0 or positive.
IsDigit(c) == c >= 48 /\ c <= 57
PrimaryWeight(c) == IF c = 95 THEN 0 ELSE c

RECURSIVE DigitRun(_)
DigitRun(s) ==
    IF s = <<>> \/ ~IsDigit(s[1]) THEN <<>> ELSE <<s[1]>> \o DigitRun(Tail(s))

RECURSIVE localeCompare(_, _)
localeCompare(a, b) ==
    IF a = <<>> /\ b = <<>> THEN 0
    ELSE IF a = <<>> THEN -1
    ELSE IF b = <<>> THEN 1
    ELSE IF IsDigit(a[1]) /\ IsDigit(b[1])
    THEN IF ParseDigits(DigitRun(a)) # ParseDigits(DigitRun(b))
         THEN ParseDigits(DigitRun(a)) - ParseDigits(DigitRun(b))
         ELSE localeCompare(SubSeq(a, Len(DigitRun(a)) + 1, Len(a)),
                            SubSeq(b, Len(DigitRun(b)) + 1, Len(b)))
    ELSE IF PrimaryWeight(a[1]) # PrimaryWeight(b[1])
    THEN PrimaryWeight(a[1]) - PrimaryWeight(b[1])
    ELSE localeCompare(Tail(a), Tail(b))

\* Array.prototype.sort with the comparator of util/encoder.ts:86: a
\* stable sort, written as an insertion sort on the entries.
RECURSIVE InsertEntry(_, _)
InsertEntry(e, sorted) ==
    IF sorted = <<>> THEN <<e>>
    ELSE IF localeCompare(e[1], Head(sorted)[1]) < 0 THEN <<e>> \o sorted
    ELSE <<Head(sorted)>> \o InsertEntry(e, Tail(sorted))

RECURSIVE sortEntries(_)
sortEntries(entries) ==
    IF entries = <<>> THEN <<>>
    ELSE InsertEntry(entries[Len(entries)],
                     sortEntries(SubSeq(entries, 1, Len(entries) - 1)))

\* util/encoder.ts:10-113  encode
RECURSIVE encode(_)
RECURSIVE EncodeElements(_)
RECURSIVE EncodePairs(_)

\* util/encoder.ts:70-75  every element after the four bytes of its size
EncodeElements(items) ==
    IF items = <<>> THEN <<>>
    ELSE writeUInt32BE(Len(encode(Head(items)))) \o encode(Head(items))
             \o EncodeElements(Tail(items))

\* util/encoder.ts:93-106  key and value of every entry, each after its size
EncodePairs(entries) ==
    IF entries = <<>> THEN <<>>
    ELSE writeUInt32BE(Len(encode(Str(Head(entries)[1]))))
             \o encode(Str(Head(entries)[1]))
             \o writeUInt32BE(Len(encode(Head(entries)[2])))
             \o encode(Head(entries)[2])
             \o EncodePairs(Tail(entries))

encode(x) ==
    IF x.t = "null" THEN <<0>>
    ELSE IF x.t = "buffer" THEN <<5>> \o x.v
    ELSE IF x.t = "string" THEN <<1>> \o Utf8(x.v)
    ELSE IF x.t = "number" THEN <<2>> \o NumberToString(x.v)
    ELSE IF x.t = "boolean" THEN <<3>> \o (IF x.v = <<1>> THEN <<49>> ELSE <<48>>)
    ELSE IF x.t = "bigint" THEN <<4>> \o IntToString(x.v[1])
    ELSE IF x.t = "date" THEN <<6>> \o IntToString(x.v[1])
    ELSE IF x.t = "array"
    THEN <<7>> \o writeUInt32BE(Len(x.items)) \o EncodeElements(x.items)
    ELSE <<8>> \o writeUInt32BE(Len(Entries(x))) \o EncodePairs(sortEntries(Entries(x)))

\* result[key] = value on the plain object decode() builds: an own
\* property is added, or overwritten in place; the key "__proto__" goes to
\* the setter of Object.prototype and adds no own property.
ProtoKey == <<95, 95, 112, 114, 111, 116, 111, 95, 95>>
AssignProperty(entries, key, value) ==
    IF key = ProtoKey THEN entries
    ELSE IF \E i \in 1..Len(entries) : entries[i][1] = key
    THEN [i \in 1..Len(entries) |->
             IF entries[i][1] = key THEN <<key, value>> ELSE entries[i]]
    ELSE Append(entries, <<key, value>>)

\* util/encoder.ts:120-206  decode
RECURSIVE decode(_)
RECURSIVE DecodeElements(_, _, _)
RECURSIVE DecodePairs(_, _, _, _)

\* util/encoder.ts:159-167  the loop over the elements of an array
DecodeElements(content, offset, count) ==
    IF count = 0 THEN <<>>
    ELSE <<decode(subarray(content, offset + 4,
                           offset + 4 + readUInt32BE(content, offset)))>>
             \o DecodeElements(content,
                               offset + 4 + readUInt32BE(content, offset),
                               count - 1)

\* util/encoder.ts:178-198  the loop over the entries of an object
DecodePairs(content, offset, count, built) ==
    IF count = 0 THEN built
    ELSE LET keySize == readUInt32BE(content, offset)
             key == decode(subarray(content, offset + 4, offset + 4 + keySize))
             valueAt == offset + 4 + keySize
             valueSize == readUInt32BE(content, valueAt)
             value == decode(subarray(content, valueAt + 4, valueAt + 4 + valueSize))
         IN DecodePairs(content, valueAt + 4 + valueSize, count - 1,
                        AssignProperty(built, key.v, value))

decode(buffer) ==
    IF Len(buffer) = 0 THEN DecodeError
    ELSE LET typeMarker == buffer[1]
             contentBuffer == Tail(buffer)
         IN IF typeMarker = 0 THEN Null
            ELSE IF typeMarker = 1 THEN Str(Utf8ToString(contentBuffer))
            ELSE IF typeMarker = 2
            THEN Scalar("number", NumberFromString(contentBuffer))
            ELSE IF typeMarker = 3 THEN Bool(contentBuffer = <<49>>)
            ELSE IF typeMarker = 4 THEN BigInt(IntFromString(contentBuffer))
            ELSE IF typeMarker = 5 THEN Buf(contentBuffer)
            ELSE IF typeMarker = 6 THEN DateOf(IntFromString(contentBuffer))
            ELSE IF typeMarker = 7
            THEN Arr(DecodeElements(contentBuffer, 4, readUInt32BE(contentBuffer, 0)))
            ELSE IF typeMarker = 8
            THEN Obj(DecodePairs(contentBuffer, 4, readUInt32BE(contentBuffer, 0), <<>>))
            ELSE DecodeError

\* Structural equality of two values: the same type and payload, arrays
\* item by item, objects entry by entry whatever the order of the keys.
RECURSIVE StructurallyEqual(_, _)
StructurallyEqual(a, b) ==
    IF a.t # b.t THEN FALSE
    ELSE IF a.t = "array"
    THEN /\ Len(a.items) = Len(b.items)
         /\ \A i \in 1..Len(a.items) : StructurallyEqual(a.items[i], b.items[i])
    ELSE IF a.t = "object"
    THEN /\ Len(a.keys) = Len(b.keys)
         /\ \A i \in 1..Len(a.keys) : \E j \in 1..Len(b.keys) :
                /\ a.keys[i] = b.keys[j]
                /\ StructurallyEqual(a.items[i], b.items[j])
    ELSE a.v = b.v

\* The values the specification of the codec draws from.
KeyA2 == <<97, 50>>
KeyA10 == <<97, 49, 48>>
KeyA02 == <<97, 48, 50>>
KeyStrings == {KeyA2, KeyA10, KeyA02, ProtoKey}
LoneSurrogate == 55296
Scalars ==
    {Null, Str(<<>>), Str(KeyA2), Str(<<233>>), Str(<<LoneSurrogate>>),
     Num(1, 0), Num(-1, 0), Num(1, 10), Num(-1, 7), Bool(TRUE), Bool(FALSE),
     BigInt(12), BigInt(-3), Buf(<<>>), Buf(<<0, 255>>), DateOf(1000)}
EntryValues == {Num(1, 1), Num(1, 2), Arr(<<Null>>)}

SeqsUpTo(S, n) == UNION {[1..k -> S] : k \in 0..n}
DistinctKeys(entries) ==
    \A i, j \in 1..Len(entries) : entries[i][1] = entries[j][1] => i = j
Objects ==
    {Obj(e) : e \in {q \in SeqsUpTo(KeyStrings \X EntryValues, MaxEntries) :
                        DistinctKeys(q)}}
Arrays ==
    {Arr(q) : q \in SeqsUpTo(Scalars \cup {Obj(<<<<KeyA10, Num(1, 1)>>,
                                                  <<KeyA2, Num(1, 2)>>>>)},
                             MaxArrayLen)}
CodecValues == Scalars \cup Arrays \cup Objects

\* The objects with the entries of x inserted in another order.
Reorderings(x) ==
    IF x.t # "object" THEN {x}
    ELSE {Obj(q) : q \in {r \in [1..Len(x.keys) ->
                                      {Entries(x)[i] : i \in 1..Len(x.keys)}] :
                             DistinctKeys(r)}}

NoValue == Scalar("none", <<>>)

\* The value drawn, before anything was encoded.
CodecStart(x, y) ==
    /\ codecValue = x
    /\ codecOther = y
    /\ codecPc = "start"
    /\ codecBytes = <<>>
    /\ codecOtherBytes = <<>>
    /\ codecDecoded = NoValue
    /\ codecSignature = NoSignature
    /\ codecStatus = 0

\* The codec is left out of the other specifications.
CodecParked == CodecStart(Null, Null)

CodecInit == \E x \in CodecValues : \E y \in Reorderings(x) : CodecStart(x, y)

\* ---- POST /helius/webhook (routes/heliusWebhook.ts)
\* A token balance change of the body.
Change(mint, tokenAccount, userAccount, tokenAmount) ==
    [mint |-> mint, tokenAccount |-> tokenAccount, userAccount |-> userAccount,
     tokenAmount |-> tokenAmount]

\* The ids of the assets getCachedTokenMints returns.
trackedTokenMints == {"MintA", "MintB"}

\* String.prototype.toLowerCase on the mints of the model
toLowerCase(s) ==
    IF s = "MintA" THEN "minta"
    ELSE IF s = "MintB" THEN "mintb"
    ELSE IF s = "Other" THEN "other"
    ELSE s

Users == {"u1", "u2"}
ChangeUniverse ==
    {Change("MintA", "t1", "u1", "5"), Change("MintB", "t2", "u1", "5"),
     Change("MintA", "t3", "u2", "5"), Change("minta", "t4", "u2", "5"),
     Change("Other", "t5", "u1", "5"), Change("MintA", "u2", "u2", "5"),
     Change("MintB", "t6", "u2", "0")}

\* The handler before the request is read.
WebhookStart(authorized, changes, cached) ==
    /\ whAuthorized = authorized
    /\ whChanges = changes
    /\ whCacheAtStart = cached
    /\ whCache = cached
    /\ whQueue = <<>>
    /\ whTasks = <<>>
    /\ whPc = "start"
    /\ whStatus = 0

\* The route is left out of the other specifications.
WebhookParked == WebhookStart(FALSE, <<>>, {})

WebhookInit ==
    \E authorized \in BOOLEAN : \E changes \in SeqsUpTo(ChangeUniverse, MaxChanges) :
        \E cached \in SUBSET Users : WebhookStart(authorized, changes, cached)

\* ---- Throttler (util/throttle.ts)
Callers == 1..NumCallers
windowMs == 1000
SlotBufferMs == 50
InitialBackoffMs == 500
ResetBackoffMs == 100
maxBackoffMs == 15000

\* util/throttle.ts:13-17 and 32-35  a Throttler just constructed for a
\* limit of max, and callers that have not called execute()
ThrottlerConstructed(max) ==
    /\ maxCallsPerSecond = max
    /\ callCount = 0
    /\ windowAge = 0
    /\ consecutiveErrors = 0
    /\ backoffMs = InitialBackoffMs
    /\ callerPc = [c \in Callers |-> "idle"]
    /\ sleepLeft = [c \in Callers |-> 0]
    /\ invocations = [c \in Callers |-> 0]
    /\ queued = [c \in Callers |-> FALSE]
    /\ fnOutcome = [c \in Callers |-> "none"]
    /\ returnedOutcome = [c \in Callers |-> "none"]
    /\ startAges = <<>>
    /\ rateLimited = 0

\* The rate limiter is left out of the other specifications.
ThrottleParked == ThrottlerConstructed(1)

ThrottleInit == \E max \in 1..MaxLimit : ThrottlerConstructed(max)

UtilParked == ThrottleParked /\ CodecParked /\ WebhookParked

TaskInit ==
    /\ minSignaturesRequired \in 0..MaxMinSig
    /\ pc = "start"
    /\ prepareResults = <<>>
    /\ rpc = [p \in Peers |-> "idle"]
    /\ timerFired = FALSE
    /\ result = NoResult
    /\ data = <<>>
    /\ validationPeers = <<>>
    /\ inflight = NoRequest
    /\ served = NotServed
    /\ completedTasksTotal = 0
    /\ calls = <<>>
    /\ oks = <<>>
    /\ prepareOutcome = NoResult
    /\ processOutcome = NoResult
    /\ collected = -1
    /\ prepareRequests = {}
    /\ validateRequests = <<>>
    /\ processInput = <<>>
    /\ executeInput = <<>>
    /\ submitted = 0
    /\ response = 0

Init == TaskInit /\ RegistryInit /\ ListenerParked /\ UtilParked

\* The Task of a node is left out of the specifications of its listeners.
TaskParked == TaskInit /\ minSignaturesRequired = 0

\* ------------------------------------------------- peer server: prepare
JsonResponse(st, e, enc, sig) ==
    [kind |-> "json", status |-> st, error |-> e, encodedData |-> enc, signature |-> sig]
ConnectError == [kind |-> "connect_error", status |-> 0, error |-> "",
                 encodedData |-> NoBuffer, signature |-> NoSignature]
BadJson == [kind |-> "bad_json", status |-> 200, error |-> "",
            encodedData |-> NoBuffer, signature |-> NoSignature]

\* routes/taskPrepare at node `node`: prepared is what plugin.prepare returned.
taskPrepare(node, pluginId, prepared) ==
    IF pluginId # RegisteredPlugin
    THEN JsonResponse(404, "Plugin not found", NoBuffer, NoSignature)
    ELSE IF prepared.kind = "err"
    THEN JsonResponse(500, prepared.type, NoBuffer, NoSignature)
    ELSE JsonResponse(200, "", EncodeString(prepared.value),
                      signData(EncodeString(prepared.value), node))

PeerPrepareResults == {Ok(d) : d \in PreparedValues} \cup {Err(t) : t \in PrepareErrors}

\* What the fetch of /task/prepare at peer p can yield: the answer of the
\* peer's route, a transport failure, or a body that is not what the route
\* of an honest peer produces (signature missing, garbled or made with
\* another node's key, encodedData that does not decode).
Signatures(buf) == {signData(buf, k) : k \in Keys} \cup {BadSignature, NoSignature}
AlteredResponses ==
    UNION {{JsonResponse(200, "", EncodeString(d), sig) : sig \in Signatures(EncodeString(d))} :
              d \in PreparedValues}
    \cup {JsonResponse(200, "", <<UnknownMarker, "x">>, BadSignature)}
RawPrepareResponses(p) ==
    {taskPrepare(p, RegisteredPlugin, r) : r \in PeerPrepareResults}
    \cup {taskPrepare(p, UnknownPlugin, Ok("p1"))}
    \cup {ConnectError, BadJson}
    \cup AlteredResponses

\* -------------------------------------------------- peer client: prepare
\* requestPrepare: the Result it resolves to.  It throws (the promise
\* rejects) when decode() throws inside the last andThen.
requestPrepareThrows(raw) ==
    raw.kind = "json" /\ Present(raw.encodedData) /\ DecodeThrows(raw.encodedData)

AcceptPrepareResponse(peer, raw) == Present(raw.encodedData)

requestPrepare(peer, raw) ==
    IF raw.kind = "connect_error" THEN Err("timeout")
    ELSE IF raw.kind = "bad_json" THEN Err("plugin_error")
    ELSE IF ~AcceptPrepareResponse(peer, raw) THEN Err("plugin_error")
    ELSE [kind |-> "ok", type |-> "",
          value |-> [data |-> Decode(raw.encodedData), signature |-> raw.signature]]

\* ------------------------------------------------ peer server: validate
ValidateResponse(st, e, enc, called) ==
    [status |-> st, error |-> e, encodedData |-> enc, pluginCalled |-> called]

\* Mutant: the signature is checked under the primary's key.
VerifyKey_Primary(node) == Self

\* The key a node checks the request signature under: its own config.publicKey.
VerifyKey(node) == node

\* Mutant: the plugin is looked up before the signature is checked.
taskValidate_LookupFirst(node, body, validated) ==
    IF body.pluginId # RegisteredPlugin
    THEN ValidateResponse(404, "Plugin not found", NoBuffer, FALSE)
    ELSE IF ~verifySignature(EncodeString(body.preparedData), body.signature, VerifyKey(node))
    THEN ValidateResponse(400, "Invalid signature", NoBuffer, FALSE)
    ELSE IF validated.kind = "err"
    THEN ValidateResponse(500, validated.type, NoBuffer, TRUE)
    ELSE ValidateResponse(200, "", EncodeArray(validated.value), TRUE)

\* routes/taskValidate at node `node`; validated is what the node's
\* plugin.validate returns if it is reached.
taskValidate(node, body, validated) ==
    IF ~verifySignature(EncodeString(body.preparedData), body.signature, VerifyKey(node))
    THEN ValidateResponse(400, "Invalid signature", NoBuffer, FALSE)
    ELSE IF body.pluginId # RegisteredPlugin
    THEN ValidateResponse(404, "Plugin not found", NoBuffer, FALSE)
    ELSE IF validated.kind = "err"
    THEN ValidateResponse(500, validated.type, NoBuffer, TRUE)
    ELSE ValidateResponse(200, "", EncodeArray(validated.value), TRUE)

\* What plugin.validate of node `node` can return on `input`: the aggregate
\* with the node's signature appended, or an error.
PluginValidateResults(node, input) ==
    {Ok(Append(input, node))} \cup {Err(t) : t \in ValidateErrors}

Served(node, body, resp) ==
    [node |-> node, pluginId |-> body.pluginId, preparedData |-> body.preparedData,
     signature |-> body.signature, status |-> resp.status, error |-> resp.error,
     encodedData |-> resp.encodedData, pluginCalled |-> resp.pluginCalled]

\* ------------------------------------------------- peer client: validate
requestValidate(kind, resp) ==
    IF kind = "connect_error" THEN Err("timeout")
    ELSE IF kind = "bad_json" THEN Err("plugin_error")
    ELSE IF Present(resp.encodedData) THEN Ok(Decode(resp.encodedData))
    ELSE Err("plugin_error")

\* ------------------------------------------------------ Task coordinator
Finish(r) ==
    /\ result' = r
    /\ pc' = "done"

PublicKeys(records) == [i \in 1..Len(records) |-> records[i].publicKey]
KeySet(records) == {records[i].publicKey : i \in 1..Len(records)}
IsConfigPeer(k) == \E i \in 1..Len(configPeers) : configPeers[i] = k

\* prepareResults.find((result) => result.publicKey === k)
FindRecord(records, k) ==
    records[CHOOSE i \in 1..Len(records) :
                /\ records[i].publicKey = k
                /\ \A j \in 1..(i - 1) : records[j].publicKey # k]

\* Task.ts:119  the signature sent to peer k: signatureData.signature of
\* the record found under k's public key
ForwardedSignature(records, k) == FindRecord(records, k).signature

\* Mutant: the quorum comparison is off by one.
QuorumMet_OffByOne(n) == ~(n + 1 < minSignaturesRequired)

\* Mutant: the record of a peer is filed under the local key.
RecordKey_Local(peer) == Self

\* Task.ts:58  the key a peer's record is pushed under: peer.publicKey
RecordKey(peer) == peer

\* Mutant: the peers are visited in the order of config.peers.
ValidationPeersOf_ConfigOrder(records) ==
    SelectSeq(configPeers, LAMBDA k : k \in KeySet(records))

\* Mutant: the peers are visited in the reverse of the order of the records.
ValidationPeersOf_Reversed(records) ==
    [i \in 1..Len(SelectSeq(PublicKeys(records), IsConfigPeer)) |->
        SelectSeq(PublicKeys(records), IsConfigPeer)[
            Len(SelectSeq(PublicKeys(records), IsConfigPeer)) + 1 - i]]

\* Task.ts:92 and 111-113  the peers the Validate phase visits: the keys of
\* the records, in the order of the records, that config.peers knows.
ValidationPeersOf(records) == SelectSeq(PublicKeys(records), IsConfigPeer)

\* Mutant: the answer of a peer is dropped and the aggregate kept.
AggregateAfter_Stale(r, d) == d

\* Task.ts:132  data = validationResult.value
AggregateAfter(r, d) == r.value

\* Mutant: a timeout of the Prepare phase is reported as a success.
PrepareErrResult_TimeoutOk(e) ==
    IF e.type \in {"permanent_error", "timeout"} THEN Ok(Undefined) ELSE Err(e.type)

\* Mutant: the counter is incremented before the result of execute is looked at.
ExecuteIncrement_Always(r) == 1

\* Task.ts:169-174  completedTasksTotal.inc() is reached only past the isErr return
ExecuteIncrement(r) == IF r.kind = "ok" THEN 1 ELSE 0

\* Mutant: the phase goes on only when every peer contributed a record.
QuorumMet_EveryPeer(n) == n = Len(configPeers) + 1 /\ ~(n < minSignaturesRequired)

\* Task.ts:70  prepareResults.length < config.minSignaturesRequired
QuorumMet(n) == ~(n < minSignaturesRequired)

\* Mutant: a permanent_error is reported like any other error.
PrepareErrResult_NoShortCircuit(e) == Err(e.type)

\* Task.ts:146-153  what start() returns when runPreparePhase returned err
PrepareErrResult(e) ==
    IF e.type = "permanent_error" THEN Ok(Undefined) ELSE Err(e.type)

\* Mutant: start() turns non_error into a success.
ProcessErrResult_NonErrorOk(e) ==
    IF e.type = "non_error" THEN Ok(Undefined) ELSE Err(e.type)

\* Task.ts:157-160  what start() returns when runProcessPhase returned err
ProcessErrResult(e) == Err(e.type)

\* Mutant: the loop ignores a failed requestValidate.
PeerValidateAborts_Never(r) == FALSE

\* Task.ts:128-130  a failed requestValidate leaves the loop
PeerValidateAborts(r) == r.kind = "err"

\* Mutant: after the deadline the phase goes on with the records that arrived.
AfterTimeout_Proceed(n) == IF QuorumMet(n) THEN "process" ELSE "done"

\* Task.ts:65-68  a rejected race makes runPreparePhase return err, which
\* ends start(), however many records are held
AfterTimeout(n) == "done"

\* Mutant: a failed execute is tried again.
AfterExecute_Retry(r) == IF r.kind = "err" THEN "execute" ELSE "done"

\* Task.ts:168-176  start() returns after the one call of runExecutePhase
AfterExecute(r) == "done"

\* Task.ts:28-63: the local plugin.prepare, then the fan-out to every peer
\* and the arming of the timer.
LocalPrepare(r) ==
    /\ pc = "start"
    /\ calls' = Append(calls, Step("prepare", Self))
    /\ prepareOutcome' = r
    /\ IF r.kind = "err"
       THEN /\ Finish(PrepareErrResult(r))
            /\ UNCHANGED <<prepareResults, rpc, prepareRequests>>
       ELSE /\ prepareResults' = <<[publicKey |-> Self, data |-> r.value,
                                    signature |-> NoSignature]>>
            /\ rpc' = [p \in Peers |-> "pending"]
            /\ prepareRequests' = Peers
            /\ pc' = "prepare_wait"
            /\ UNCHANGED result
    /\ UNCHANGED <<processInput, executeInput, submitted, response>>
    /\ UNCHANGED <<registryVars, listenerVars, utilVars>>
    /\ UNCHANGED <<minSignaturesRequired, timerFired, data, validationPeers,
                   inflight, served, completedTasksTotal, oks, processOutcome,
                   collected, validateRequests>>

\* Task.ts:47-59: the preparePromise of peer p settles.  A rejection of it
\* rejects Promise.all and, through the race, ends the phase (Task.ts:65-68).
PeerPrepareResponse(p, raw) ==
    /\ rpc[p] = "pending"
    /\ peerTimeoutMs > 0 \/ pc # "prepare_wait"
    /\ IF requestPrepareThrows(raw)
       THEN /\ rpc' = [rpc EXCEPT ![p] = "rejected"]
            /\ IF pc = "prepare_wait"
               THEN /\ Finish(PrepareErrResult(Err("timeout")))
                    /\ collected' = Len(prepareResults)
               ELSE UNCHANGED <<pc, result, collected>>
            /\ UNCHANGED prepareResults
       ELSE /\ rpc' = [rpc EXCEPT ![p] = "settled"]
            /\ prepareResults' =
                 IF requestPrepare(p, raw).kind = "err"
                 THEN prepareResults
                 ELSE Append(prepareResults,
                             [publicKey |-> RecordKey(p),
                              data |-> requestPrepare(p, raw).value.data,
                              signature |-> requestPrepare(p, raw).value.signature])
            /\ UNCHANGED <<pc, result, collected>>
    /\ UNCHANGED <<processInput, executeInput, submitted, response>>
    /\ UNCHANGED <<registryVars, listenerVars, utilVars>>
    /\ UNCHANGED <<minSignaturesRequired, timerFired, data, validationPeers,
                   inflight, served, completedTasksTotal, calls, oks,
                   prepareOutcome, processOutcome, prepareRequests,
                   validateRequests>>

\* Task.ts:65-74: Promise.all resolved before the timer; the quorum check.
PrepareAllSettled ==
    /\ pc = "prepare_wait"
    /\ \A p \in Peers : rpc[p] = "settled"
    /\ collected' = Len(prepareResults)
    /\ IF QuorumMet(Len(prepareResults))
       THEN /\ pc' = "process"
            /\ oks' = Append(oks, Step("prepare", Self))
            /\ UNCHANGED result
       ELSE /\ Finish(PrepareErrResult(Err("insufficient_peers")))
            /\ UNCHANGED oks
    /\ UNCHANGED <<processInput, executeInput, submitted, response>>
    /\ UNCHANGED <<registryVars, listenerVars, utilVars>>
    /\ UNCHANGED <<minSignaturesRequired, prepareResults, rpc, timerFired, data,
                   validationPeers, inflight, served, completedTasksTotal,
                   calls, prepareOutcome, processOutcome, prepareRequests,
                   validateRequests>>

\* Task.ts:61-68: the timer fires while a peer's promise is still pending.
PrepareTimeout ==
    /\ pc = "prepare_wait"
    /\ \E p \in Peers : rpc[p] = "pending"
    /\ timerFired' = TRUE
    /\ collected' = Len(prepareResults)
    /\ pc' = AfterTimeout(Len(prepareResults))
    /\ result' = IF pc' = "done" THEN PrepareErrResult(Err("timeout")) ELSE result
    /\ UNCHANGED <<processInput, executeInput, submitted, response>>
    /\ UNCHANGED <<registryVars, listenerVars, utilVars>>
    /\ UNCHANGED <<minSignaturesRequired, prepareResults, rpc, data,
                   validationPeers, inflight, served, completedTasksTotal,
                   calls, oks, prepareOutcome, processOutcome, prepareRequests,
                   validateRequests>>

\* Task.ts:77-86 and 155-160: plugin.process on the collected records.
Process(r) ==
    /\ pc = "process"
    /\ calls' = Append(calls, Step("process", Self))
    /\ processInput' = PublicKeys(prepareResults)
    /\ processOutcome' = r
    /\ IF r.kind = "err"
       THEN /\ Finish(ProcessErrResult(r))
            /\ UNCHANGED <<data, oks>>
       ELSE /\ data' = r.value
            /\ oks' = Append(oks, Step("process", Self))
            /\ pc' = "validate"
            /\ UNCHANGED result
    /\ UNCHANGED <<executeInput, submitted, response>>
    /\ UNCHANGED <<registryVars, listenerVars, utilVars>>
    /\ UNCHANGED <<minSignaturesRequired, prepareResults, rpc, timerFired,
                   validationPeers, inflight, served, completedTasksTotal,
                   prepareOutcome, collected, prepareRequests, validateRequests>>

\* Task.ts:116-135: one turn of the loop over validationPeers with the
\* aggregate d: send the next /task/validate, fail, or return ok(d).
ValidateLoop(d, rest, c) ==
    IF rest = <<>>
    THEN /\ pc' = "execute"
         /\ inflight' = NoRequest
         /\ calls' = c
         /\ UNCHANGED <<result, validateRequests>>
    ELSE IF FindRecord(prepareResults, Head(rest)).data = Falsy
    THEN /\ Finish(Err("plugin_error"))
         /\ inflight' = NoRequest
         /\ calls' = c
         /\ UNCHANGED validateRequests
    ELSE IF ~ForwardedSignature(prepareResults, Head(rest)).present
    THEN /\ Finish(Err("plugin_error"))
         /\ inflight' = NoRequest
         /\ calls' = c
         /\ UNCHANGED validateRequests
    ELSE /\ inflight' = [peer |-> Head(rest),
                         pluginId |-> RegisteredPlugin,
                         input |-> d,
                         preparedData |-> FindRecord(prepareResults, Head(rest)).data,
                         signature |-> ForwardedSignature(prepareResults, Head(rest))]
         /\ validateRequests' = Append(validateRequests, Head(rest))
         /\ calls' = Append(c, Step("peer_validate", Head(rest)))
         /\ pc' = "validate_peers"
         /\ UNCHANGED result

\* Task.ts:92-114: the local plugin.validate; v is "ok", "ok_falsy" or an
\* error tag.
LocalValidateResults == {"ok", "ok_falsy"} \cup ValidateErrors

LocalValidate(v) ==
    /\ pc = "validate"
    /\ IF prepareResults[1].data = Falsy
       THEN /\ Finish(Err("plugin_error"))
            /\ UNCHANGED <<calls, oks, data, validationPeers, inflight,
                           validateRequests>>
       ELSE IF v \in ValidateErrors
       THEN /\ Finish(Err(v))
            /\ calls' = Append(calls, Step("validate", Self))
            /\ UNCHANGED <<oks, data, validationPeers, inflight, validateRequests>>
       ELSE IF v = "ok_falsy"
       THEN /\ Finish(Err("plugin_error"))
            /\ calls' = Append(calls, Step("validate", Self))
            /\ UNCHANGED <<oks, data, validationPeers, inflight, validateRequests>>
       ELSE /\ oks' = Append(oks, Step("validate", Self))
            /\ data' = Append(data, Self)
            /\ validationPeers' = ValidationPeersOf(prepareResults)
            /\ ValidateLoop(data', validationPeers',
                            Append(calls, Step("validate", Self)))
    /\ UNCHANGED <<processInput, executeInput, submitted, response>>
    /\ UNCHANGED <<registryVars, listenerVars, utilVars>>
    /\ UNCHANGED <<minSignaturesRequired, prepareResults, rpc, timerFired,
                   served, completedTasksTotal, prepareOutcome, processOutcome,
                   collected, prepareRequests>>

\* Task.ts:122-132: the answer to the /task/validate in flight.  kind is
\* how the fetch ended; validated is what the peer's plugin.validate returns
\* if its route reaches it.
PeerValidateResponse(kind, validated) ==
    /\ pc = "validate_peers"
    /\ inflight # NoRequest
    /\ LET peer == inflight.peer
           resp == taskValidate(peer, inflight, validated)
           r == requestValidate(kind, resp)
       IN /\ served' = IF kind = "connect_error" THEN served
                       ELSE Served(peer, inflight, resp)
          /\ IF PeerValidateAborts(r)
             THEN /\ Finish(Err(r.type))
                  /\ inflight' = NoRequest
                  /\ UNCHANGED <<data, oks, calls, validationPeers,
                                 validateRequests>>
             ELSE /\ data' = IF r.kind = "ok" THEN AggregateAfter(r, data) ELSE data
                  /\ oks' = IF r.kind = "ok"
                            THEN Append(oks, Step("peer_validate", peer))
                            ELSE oks
                  /\ validationPeers' = Tail(validationPeers)
                  /\ ValidateLoop(data', validationPeers', calls)
    /\ UNCHANGED <<processInput, executeInput, submitted, response>>
    /\ UNCHANGED <<registryVars, listenerVars, utilVars>>
    /\ UNCHANGED <<minSignaturesRequired, prepareResults, rpc, timerFired,
                   completedTasksTotal, prepareOutcome, processOutcome,
                   collected, prepareRequests>>

\* What the downstream chain can answer the submission with, and the case
\* where no client to the chain could be created.
Accepted == 200
Duplicate == 409
ChainStatuses == {Accepted, Duplicate, 400, 503}
NoClient == -1
ExecuteOutcomes == ChainStatuses \cup {NoClient}

\* Mutant: a duplicate is reported like any other failed submission.
execute_DuplicateFails(status) ==
    IF status = NoClient THEN Thrown
    ELSE IF status = Accepted THEN Ok(Output)
    ELSE Err("execute_error")

\* plugins/ERC721Forwarder.ts:242-264  execute: createClient outside the
\* try (its exception leaves execute), then sendTransaction, with a 409
\* taken as success and every other failure returned as execute_error.
execute(status) ==
    IF status = NoClient THEN Thrown
    ELSE IF status = Accepted THEN Ok(Output)
    ELSE IF status = Duplicate THEN Ok(Output)
    ELSE Err("execute_error")

\* Task.ts:138-140 and 168-176: plugin.execute on the validated aggregate.
Execute(status) ==
    /\ pc = "execute"
    /\ calls' = Append(calls, Step("execute", Self))
    /\ executeInput' = data
    /\ submitted' = status
    /\ pc' = AfterExecute(execute(status))
    /\ completedTasksTotal' = completedTasksTotal + ExecuteIncrement(execute(status))
    /\ IF execute(status).kind = "ok"
       THEN /\ result' = Ok(execute(status).value)
            /\ oks' = Append(oks, Step("execute", Self))
       ELSE /\ result' = execute(status)
            /\ UNCHANGED oks
    /\ UNCHANGED <<processInput, response>>
    /\ UNCHANGED <<registryVars, listenerVars, utilVars>>
    /\ UNCHANGED <<minSignaturesRequired, prepareResults, rpc, timerFired, data,
                   validationPeers, inflight, served, prepareOutcome,
                   processOutcome, collected, prepareRequests, validateRequests>>

\* routes/taskCreate.ts:5-24  the answer of POST /task once start() ended
\* with r: 500 from the catch when start() threw, and otherwise "OK" (200)
\* without a look at the Result start() returned.
taskCreate(r) == IF r.kind = "thrown" THEN 500 ELSE 200

TaskCreateRespond ==
    /\ pc = "done"
    /\ response = 0
    /\ response' = taskCreate(result)
    /\ UNCHANGED <<registryVars, listenerVars, utilVars>>
    /\ UNCHANGED <<minSignaturesRequired, pc, prepareResults, rpc, timerFired,
                   result, data, validationPeers, inflight, served,
                   completedTasksTotal, calls, oks, prepareOutcome,
                   processOutcome, collected, prepareRequests, validateRequests,
                   processInput, executeInput, submitted>>

LocalPrepareResults == {Ok(d) : d \in PreparedValues} \cup {Err(t) : t \in PrepareErrors}
ProcessResults == {Ok(<<>>)} \cup {Err(t) : t \in ProcessErrors}
ExecuteResults == {execute(status) : status \in ExecuteOutcomes}
FetchKinds == {"json", "connect_error", "bad_json"}

Next ==
    \/ \E r \in LocalPrepareResults : LocalPrepare(r)
    \/ \E p \in Peers : \E raw \in RawPrepareResponses(p) : PeerPrepareResponse(p, raw)
    \/ PrepareAllSettled
    \/ PrepareTimeout
    \/ \E r \in ProcessResults : Process(r)
    \/ \E v \in LocalValidateResults : LocalValidate(v)
    \/ \E kind \in FetchKinds :
         \E validated \in PluginValidateResults(inflight.peer, inflight.input) :
            PeerValidateResponse(kind, validated)
    \/ \E status \in ExecuteOutcomes : Execute(status)
    \/ TaskCreateRespond

Spec == Init /\ [][Next]_vars

\* ------------------------------------ the /task/validate route on its own
\* Any client may post to /task/validate of any node: the body is drawn from
\* every plugin id, prepared value and signature of the model.
RouteBodies ==
    UNION {{[peer |-> -1, pluginId |-> id, input |-> <<Self>>,
             preparedData |-> d, signature |-> sig] :
                id \in PluginIds, sig \in Signatures(EncodeString(d)) \ {NoSignature}} :
           d \in PreparedValues \cup {"p2"}}

InboundValidate(node, body, validated) ==
    /\ served' = Served(node, body, taskValidate(node, body, validated))
    /\ UNCHANGED taskVars
    /\ UNCHANGED <<registryVars, listenerVars, utilVars>>

NextRoute ==
    \E node \in Keys : \E body \in RouteBodies :
        \E validated \in PluginValidateResults(node, body.input) :
            InboundValidate(node, body, validated)

SpecRoute == Init /\ [][NextRoute]_vars

\* ------------------------------------------------------ ListenerRegistry
\* Time is kept relative: nextRunTime[l] is the time left until the
\* nextRunTime of the entry, so `now >= nextRunTime` reads nextRunTime[l] = 0
\* and the passage of time (TimePasses) lowers every entry that is not yet 0.
OneMinute == MaxDelay

\* util/time.ts: minutesFromNow(m) = Date.now() + m * 60 * 1000
minutesFromNow(m) == m * OneMinute

\* The timestamps a run() can return, as delays from the time of return.
ReturnedDelays == 0..MaxDelay

\* ListenerRegistry.ts:29-36  register
Register(l) ==
    /\ ~registered[l]
    /\ registered' = [registered EXCEPT ![l] = TRUE]
    /\ nextRunTime' = [nextRunTime EXCEPT ![l] = 0]
    /\ running' = [running EXCEPT ![l] = FALSE]
    /\ UNCHANGED <<registryRunning, monitored, inProgress, lastRun, returned>>
    /\ UNCHANGED <<taskVars, served, listenerVars, utilVars>>

\* ListenerRegistry.ts:21-27 and 60-68  start, called once by the timer of
\* getInstance: one monitoring loop for each entry of scheduledListeners.
Start ==
    /\ ~registryRunning
    /\ registryRunning' = TRUE
    /\ monitored' = registered
    /\ UNCHANGED <<registered, running, nextRunTime, inProgress, lastRun, returned>>
    /\ UNCHANGED <<taskVars, served, listenerVars, utilVars>>

\* Mutant: a run is started while the previous one is in progress.
CanStart_WhileRunning(l) == nextRunTime[l] = 0

\* Mutant: a run is started before its time.
CanStart_BeforeDue(l) == ~running[l]

\* Mutant: one lock for all listeners.
CanStart_SharedLock(l) ==
    nextRunTime[l] = 0 /\ \A k \in Listeners : ~running[k]

\* ListenerRegistry.ts:77 and 39  now >= nextRunTime && !running
CanStart(l) == nextRunTime[l] = 0 /\ ~running[l]

\* ListenerRegistry.ts:72-89 and 38-46  a turn of the monitoring loop that
\* starts the listener: running is set before run() is called.
MonitorStartsRun(l) ==
    /\ monitored[l]
    /\ CanStart(l)
    /\ inProgress[l] < 2
    /\ running' = [running EXCEPT ![l] = TRUE]
    /\ inProgress' = [inProgress EXCEPT ![l] = @ + 1]
    /\ UNCHANGED <<registered, registryRunning, monitored, nextRunTime, lastRun,
                   returned>>
    /\ UNCHANGED <<taskVars, served, listenerVars, utilVars>>

\* Mutant: the finally block is missing.
RunningAfterRun_Kept == TRUE

\* ListenerRegistry.ts:55-57  finally: running = false
RunningAfterRun == FALSE

\* ListenerRegistry.ts:46-49 and 55-57  run() returned the timestamp now + t
RunReturns(l, t) ==
    /\ inProgress[l] > 0
    /\ nextRunTime' = [nextRunTime EXCEPT ![l] = t]
    /\ running' = [running EXCEPT ![l] = RunningAfterRun]
    /\ inProgress' = [inProgress EXCEPT ![l] = @ - 1]
    /\ lastRun' = [lastRun EXCEPT ![l] = "returned"]
    /\ returned' = [returned EXCEPT ![l] = t]
    /\ UNCHANGED <<registered, registryRunning, monitored>>
    /\ UNCHANGED <<taskVars, served, listenerVars, utilVars>>

\* ListenerRegistry.ts:50-57  run() threw
RunThrows(l) ==
    /\ inProgress[l] > 0
    /\ nextRunTime' = [nextRunTime EXCEPT ![l] = minutesFromNow(1)]
    /\ running' = [running EXCEPT ![l] = RunningAfterRun]
    /\ inProgress' = [inProgress EXCEPT ![l] = @ - 1]
    /\ lastRun' = [lastRun EXCEPT ![l] = "threw"]
    /\ UNCHANGED <<registered, registryRunning, monitored, returned>>
    /\ UNCHANGED <<taskVars, served, listenerVars, utilVars>>

\* Date.now() moves on by one unit.
TimePasses ==
    /\ \E l \in Listeners : nextRunTime[l] > 0
    /\ nextRunTime' = [l \in Listeners |->
                          IF nextRunTime[l] > 0 THEN nextRunTime[l] - 1 ELSE 0]
    /\ UNCHANGED <<registered, registryRunning, monitored, running, inProgress,
                   lastRun, returned>>
    /\ UNCHANGED <<taskVars, served, listenerVars, utilVars>>

InitRegistry == TaskParked /\ RegistryInit /\ ListenerParked /\ UtilParked

NextRegistry ==
    \/ \E l \in Listeners : Register(l)
    \/ Start
    \/ \E l \in Listeners : MonitorStartsRun(l)
    \/ \E l \in Listeners : \E t \in ReturnedDelays : RunReturns(l, t)
    \/ \E l \in Listeners : RunThrows(l)
    \/ TimePasses

SpecRegistry == InitRegistry /\ [][NextRegistry]_vars

\* The timers of the event loop fire (the timer of getInstance, the sleep
\* of every monitoring loop) and time passes; nothing obliges index.ts to
\* register a listener, nor a run() to end.
FairnessRegistry ==
    /\ WF_vars(Start)
    /\ \A l \in Listeners : WF_vars(MonitorStartsRun(l))
    /\ WF_vars(TimePasses)

SpecRegistryLive == InitRegistry /\ [][NextRegistry]_vars /\ FairnessRegistry

\* ------------------------------------------------------- ERC721Listener
Max(a, b) == IF a >= b THEN a ELSE b
Min(a, b) == IF a <= b THEN a ELSE b

\* The head of the source chain less numberOfBlocksToLagBehind
\* (ERC721Listener.ts:86-87).
effectiveCurrentBlock == MaxBlock

\* What run() returns: secondsFromNow(60) or
\* millisecondsFromNow(throttleOnSuccessMs).
SixtySeconds == "secondsFromNow(60)"
ThrottleOnSuccess == "millisecondsFromNow(throttleOnSuccessMs)"

\* JavaScript truthiness of `lastSearchedBlockNumber ? ... : ...`:
\* undefined and 0 are falsy.
Truthy(n) == n # NeverSearched /\ n # 0

\* ERC721Listener.ts:95-98
startBlock(last, unit) == Max(IF Truthy(last) THEN last + 1 ELSE 0, unit)

\* ERC721Listener.ts:99
endBlock(start, increment) == Min(start + increment - 1, effectiveCurrentBlock)

\* Mutant: the comparator looks at the block number only.
Before_BlockOnly(a, b) == a.blockNumber - b.blockNumber < 0

\* ERC721Listener.ts:176-181  the comparator of sortEvents, as "a sorts
\* before b"
Before(a, b) ==
    IF a.blockNumber # b.blockNumber
    THEN a.blockNumber - b.blockNumber < 0
    ELSE a.index - b.index < 0

\* Array.prototype.sort with that comparator: a stable sort, written as an
\* insertion sort.
RECURSIVE Insert(_, _)
Insert(e, sorted) ==
    IF sorted = <<>> THEN <<e>>
    ELSE IF Before(e, Head(sorted)) THEN <<e>> \o sorted
    ELSE <<Head(sorted)>> \o Insert(e, Tail(sorted))

\* ERC721Listener.ts:175-182  sortEvents
RECURSIVE sortEvents(_)
sortEvents(events) ==
    IF events = <<>> THEN <<>>
    ELSE Insert(events[Len(events)], sortEvents(SubSeq(events, 1, Len(events) - 1)))

\* ERC721Listener.ts:111  queryFilter(filter, startBlock, endBlock): the
\* logs of the blocks startBlock..endBlock, in any order.
InWindow(start, end) ==
    {e \in chainEvents : e.blockNumber >= start /\ e.blockNumber <= end}

RECURSIVE Orderings(_)
Orderings(S) ==
    IF S = {} THEN {<<>>}
    ELSE UNION {{<<e>> \o rest : rest \in Orderings(S \ {e})} : e \in S}

SeqSet(q) == {q[i] : i \in 1..Len(q)}

\* ERC721Listener.ts:89-104 and 155  the contract is skipped: it is indexed
\* up to the safe block, or the window is empty.
RunSkips ==
    /\ listenerPc = "idle"
    /\ \/ contractUnit >= effectiveCurrentBlock
       \/ startBlock(lastSearchedBlockNumber, contractUnit) >
             endBlock(startBlock(lastSearchedBlockNumber, contractUnit),
                      blockHeightIncrement)
    /\ nextRun' = ThrottleOnSuccess
    /\ UNCHANGED <<contractUnit, batchSize, blockHeightIncrement, chainEvents,
                   lastSearchedBlockNumber, listenerPc, window, sortedEvents,
                   dispatchCount, dispatchLog, lastBatch, failedEvents, anyFailed>>
    /\ UNCHANGED <<taskVars, served, registryVars, utilVars>>

\* The run gets as far as the query of the window.
RunQueries ==
    /\ listenerPc = "idle"
    /\ contractUnit < effectiveCurrentBlock
    /\ startBlock(lastSearchedBlockNumber, contractUnit) <=
          endBlock(startBlock(lastSearchedBlockNumber, contractUnit),
                   blockHeightIncrement)

\* ERC721Listener.ts:110-116 and 155  queryFilter throws
QueryFails ==
    /\ RunQueries
    /\ nextRun' = ThrottleOnSuccess
    /\ UNCHANGED <<contractUnit, batchSize, blockHeightIncrement, chainEvents,
                   lastSearchedBlockNumber, listenerPc, window, sortedEvents,
                   dispatchCount, dispatchLog, lastBatch, failedEvents, anyFailed>>
    /\ UNCHANGED <<taskVars, served, registryVars, utilVars>>

\* Mutant: a window handled without failure is searched again from its
\* last block.
SearchedAfterWindow_Again(end) == end - 1

\* ERC721Listener.ts:152  the window was handled: record its last block
SearchedAfterWindow(end) == end

\* ERC721Listener.ts:94-121 and 152-155  the events of the window arrive
\* in the order fetched.
RunFetches(fetched) ==
    /\ RunQueries
    /\ LET start == startBlock(lastSearchedBlockNumber, contractUnit)
           end == endBlock(start, blockHeightIncrement)
       IN /\ SeqSet(fetched) = InWindow(start, end)
          /\ Len(fetched) = Cardinality(InWindow(start, end))
          /\ window' = <<start, end>>
          /\ dispatchLog' = <<>>
          /\ IF Len(fetched) > 0
             THEN /\ sortedEvents' = sortEvents(fetched)
                  /\ listenerPc' = "batching"
                  /\ UNCHANGED <<lastSearchedBlockNumber, nextRun>>
             ELSE /\ lastSearchedBlockNumber' = SearchedAfterWindow(end)
                  /\ nextRun' = ThrottleOnSuccess
                  /\ UNCHANGED <<sortedEvents, listenerPc>>
    /\ UNCHANGED <<contractUnit, batchSize, blockHeightIncrement, chainEvents,
                   dispatchCount, lastBatch, failedEvents, anyFailed>>
    /\ UNCHANGED <<taskVars, served, registryVars, utilVars>>

\* What Task.start() can return to the listener.
TaskOutcomes == {"ok", "non_error", "error"}

\* ERC721Listener.ts:185-218  handleBatch: non_error of the Task counts as ok
handleBatch(outcome) == IF outcome = "error" THEN Err(outcome) ELSE Ok(TRUE)

\* Mutant: the listener rewinds to the block before the first event of the
\* failed batch.
RewindAfterFailure_FirstOfBatch(batch, full, start) ==
    IF full THEN batch[1].blockNumber - 1 ELSE start - 1

\* ERC721Listener.ts:133 and 145  the block recorded when a batch failed:
\* for a full batch the block before that of the event pushed last, for
\* the final partial batch the block before the window.
RewindAfterFailure(batch, full, start) ==
    IF full THEN batch[Len(batch)].blockNumber - 1 ELSE start - 1

DispatchCap == 2

\* ERC721Listener.ts:124-155  the loop pushes events until the batch is
\* full or the events are used up, and hands the batch to a Task.
HandleBatch(outcome) ==
    /\ listenerPc = "batching"
    /\ LET n == Min(batchSize, Len(sortedEvents))
           eventBatch == SubSeq(sortedEvents, 1, n)
           rest == SubSeq(sortedEvents, n + 1, Len(sortedEvents))
           full == n >= batchSize
       IN /\ dispatchCount' =
                [e \in EventUniverse |->
                    IF e \in SeqSet(eventBatch)
                    THEN Min(dispatchCount[e] + 1, DispatchCap)
                    ELSE dispatchCount[e]]
          /\ dispatchLog' = dispatchLog \o eventBatch
          /\ lastBatch' = eventBatch
          /\ IF handleBatch(outcome).kind = "err"
             THEN /\ lastSearchedBlockNumber' =
                       RewindAfterFailure(eventBatch, full, window[1])
                  /\ failedEvents' = failedEvents \cup SeqSet(eventBatch)
                  /\ anyFailed' = TRUE
                  /\ nextRun' = SixtySeconds
                  /\ sortedEvents' = <<>>
                  /\ listenerPc' = "idle"
             ELSE /\ failedEvents' = failedEvents \ SeqSet(eventBatch)
                  /\ sortedEvents' = rest
                  /\ UNCHANGED anyFailed
                  /\ IF rest = <<>>
                     THEN /\ lastSearchedBlockNumber' = SearchedAfterWindow(window[2])
                          /\ nextRun' = ThrottleOnSuccess
                          /\ listenerPc' = "idle"
                     ELSE UNCHANGED <<lastSearchedBlockNumber, nextRun, listenerPc>>
    /\ UNCHANGED <<contractUnit, batchSize, blockHeightIncrement, chainEvents, window>>
    /\ UNCHANGED <<taskVars, served, registryVars, utilVars>>

InitListener == TaskParked /\ RegistryInit /\ ListenerInit /\ UtilParked

NextListener ==
    \/ RunSkips
    \/ QueryFails
    \/ \E fetched \in Orderings(InWindow(
                 startBlock(lastSearchedBlockNumber, contractUnit),
                 endBlock(startBlock(lastSearchedBlockNumber, contractUnit),
                          blockHeightIncrement))) : RunFetches(fetched)
    \/ \E outcome \in TaskOutcomes : HandleBatch(outcome)

SpecListener == InitListener /\ [][NextListener]_vars

\* ------------------------------------------------------------- Throttler
\* What the wrapped function can end with: a value, an error that carries
\* 429, another error.
FnOutcomes == {"ok", "rate_limited", "error"}

\* The steps by which the clock moves between two turns of the event loop;
\* a timer fires at the first turn at or after its delay.
Delays == {1000}

\* util/throttle.ts:126  the sleep of a caller that finds the window full
timeToWait(age) == windowMs - age + SlotBufferMs

\* Mutant: a caller that finds the window full is turned away.
WhenFull_Dropped == "dropped"

\* util/throttle.ts:124-127  a caller that finds the window full sleeps
\* inside acquireSlot
WhenFull == "acquiring"

\* util/throttle.ts:118  now - this.lastWindowStart > this.windowMs
NewWindow(age) == age > windowMs

\* util/throttle.ts:115-121  the age and the count after the reset test
AgeAfterReset(age) == IF NewWindow(age) THEN 0 ELSE age
CountAfterReset(age, count) == IF NewWindow(age) THEN 0 ELSE count

\* util/throttle.ts:124  this.callCount >= this.maxCallsPerSecond
WindowFull(age, count) == CountAfterReset(age, count) >= maxCallsPerSecond

\* fn(...args) is invoked for caller c (util/throttle.ts:74).  The history
\* counts up to "more than twice".
InvocationsCap == 3
Invoke(c) ==
    /\ invocations' = [invocations EXCEPT ![c] = Min(invocations[c] + 1, InvocationsCap)]
    /\ startAges' = Append(startAges, 0)

\* util/throttle.ts:55-61 and 114-136  execute(): the part of acquireSlot
\* up to its await, and, when the window has room, the invocation of fn.
Acquire(c) ==
    IF WindowFull(windowAge, callCount)
    THEN /\ callerPc' = [callerPc EXCEPT ![c] = WhenFull]
         /\ sleepLeft' = [sleepLeft EXCEPT ![c] = timeToWait(AgeAfterReset(windowAge))]
         /\ queued' = [queued EXCEPT ![c] = TRUE]
         /\ windowAge' = AgeAfterReset(windowAge)
         /\ callCount' = CountAfterReset(windowAge, callCount)
         /\ UNCHANGED <<invocations, startAges>>
    ELSE /\ callerPc' = [callerPc EXCEPT ![c] = "calling"]
         /\ windowAge' = AgeAfterReset(windowAge)
         /\ callCount' = CountAfterReset(windowAge, callCount) + 1
         /\ Invoke(c)
         /\ UNCHANGED <<sleepLeft, queued>>

\* A caller calls throttler.execute(fn).  The callers are numbered in the
\* order of their calls.
Submit(c) ==
    /\ callerPc[c] = "idle"
    /\ \A b \in 1..(c - 1) : callerPc[b] # "idle"
    /\ Acquire(c)
    /\ UNCHANGED <<maxCallsPerSecond, consecutiveErrors, backoffMs, fnOutcome,
                   returnedOutcome, rateLimited>>
    /\ UNCHANGED <<taskVars, served, registryVars, listenerVars, codecVars, webhookVars>>

\* util/throttle.ts:127-135  the sleep of acquireSlot ends: the count is
\* reset, the window restarted, the slot taken and fn invoked.
Wake(c) ==
    /\ callerPc[c] = "acquiring"
    /\ sleepLeft[c] = 0
    /\ callCount' = 0 + 1
    /\ windowAge' = 0
    /\ callerPc' = [callerPc EXCEPT ![c] = "calling"]
    /\ Invoke(c)
    /\ UNCHANGED <<maxCallsPerSecond, consecutiveErrors, backoffMs, sleepLeft,
                   queued, fnOutcome, returnedOutcome, rateLimited>>
    /\ UNCHANGED <<taskVars, served, registryVars, listenerVars, codecVars, webhookVars>>

\* util/throttle.ts:84-96  every failure that carries 429 is retried
RetryOn429(n) == TRUE

\* util/throttle.ts:73-100  fn settles with outcome o.
FnSettles(c, o) ==
    /\ callerPc[c] = "calling"
    /\ o = "rate_limited" => rateLimited < MaxRateLimited
    /\ fnOutcome' = [fnOutcome EXCEPT ![c] = o]
    /\ IF o = "ok"
       THEN /\ consecutiveErrors' = Max(0, consecutiveErrors - 1)
            /\ backoffMs' = IF consecutiveErrors' = 0 THEN ResetBackoffMs ELSE backoffMs
            /\ callerPc' = [callerPc EXCEPT ![c] = "returned"]
            /\ returnedOutcome' = [returnedOutcome EXCEPT ![c] = o]
            /\ UNCHANGED <<callCount, sleepLeft, rateLimited>>
       ELSE IF o = "rate_limited" /\ RetryOn429(invocations[c])
       THEN /\ consecutiveErrors' = consecutiveErrors + 1
            /\ backoffMs' = Min(backoffMs * 2, maxBackoffMs)
            /\ callCount' = Max(maxCallsPerSecond - 1, callCount)
            /\ sleepLeft' = [sleepLeft EXCEPT ![c] = backoffMs']
            /\ callerPc' = [callerPc EXCEPT ![c] = "backoff"]
            /\ rateLimited' = rateLimited + 1
            /\ UNCHANGED returnedOutcome
       ELSE /\ callerPc' = [callerPc EXCEPT ![c] = "thrown"]
            /\ returnedOutcome' = [returnedOutcome EXCEPT ![c] = o]
            /\ UNCHANGED <<consecutiveErrors, backoffMs, callCount, sleepLeft,
                           rateLimited>>
    /\ UNCHANGED <<maxCallsPerSecond, windowAge, invocations, queued, startAges>>
    /\ UNCHANGED <<taskVars, served, registryVars, listenerVars, codecVars, webhookVars>>

\* util/throttle.ts:92-95  the backoff sleep ends: this.execute(fn, ...args)
BackoffEnds(c) ==
    /\ callerPc[c] = "backoff"
    /\ sleepLeft[c] = 0
    /\ Acquire(c)
    /\ UNCHANGED <<maxCallsPerSecond, consecutiveErrors, backoffMs, fnOutcome,
                   returnedOutcome, rateLimited>>
    /\ UNCHANGED <<taskVars, served, registryVars, listenerVars, codecVars, webhookVars>>

\* The clock moves on by d.
ThrottleTimePasses(d) ==
    /\ windowAge' = Min(windowAge + d, windowMs + 1)
    /\ sleepLeft' = [c \in Callers |-> Max(sleepLeft[c] - d, 0)]
    /\ startAges' = SelectSeq([i \in 1..Len(startAges) |-> startAges[i] + d],
                              LAMBDA a : a < windowMs)
    /\ UNCHANGED <<maxCallsPerSecond, callCount, consecutiveErrors, backoffMs,
                   callerPc, invocations, queued, fnOutcome, returnedOutcome,
                   rateLimited>>
    /\ UNCHANGED <<taskVars, served, registryVars, listenerVars, codecVars, webhookVars>>

InitThrottle ==
    TaskParked /\ RegistryInit /\ ListenerParked /\ ThrottleInit /\ CodecParked /\ WebhookParked

NextThrottle ==
    \/ \E c \in Callers : Submit(c)
    \/ \E c \in Callers : Wake(c)
    \/ \E c \in Callers : \E o \in FnOutcomes : FnSettles(c, o)
    \/ \E c \in Callers : BackoffEnds(c)
    \/ \E d \in Delays : ThrottleTimePasses(d)

SpecThrottle == InitThrottle /\ [][NextThrottle]_vars

\* Time passes and due timers fire; nothing obliges fn to settle.
FairnessThrottle ==
    /\ \A c \in Callers : WF_vars(Wake(c))
    /\ \A c \in Callers : WF_vars(BackoffEnds(c))
    /\ WF_vars(\E d \in Delays : ThrottleTimePasses(d))

SpecThrottleLive == InitThrottle /\ [][NextThrottle]_vars /\ FairnessThrottle

\* ------------------------------------------- the codec between two nodes
\* The peer whose prepare output travels.
CodecPeer == 1

\* JavaScript truthiness of a decoded value (Task.ts:118 `!preparedData`)
TruthyValue(x) ==
    IF x.t = "null" THEN FALSE
    ELSE IF x.t = "string" THEN x.v # <<>>
    ELSE IF x.t = "number" THEN x.v[2] # 0
    ELSE IF x.t = "boolean" THEN x.v = <<1>>
    ELSE IF x.t = "bigint" THEN x.v # <<0>>
    ELSE TRUE

\* The keys of a ValidateRequest, as code units.
KeyPluginId == <<112, 108, 117, 103, 105, 110, 73, 100>>
KeyInput == <<105, 110, 112, 117, 116>>
KeyPreparedData == <<112, 114, 101, 112, 97, 114, 101, 100, 68, 97, 116, 97>>
KeySignature == <<115, 105, 103, 110, 97, 116, 117, 114, 101>>

\* Task.ts:122-127  the request the primary builds for the peer
ValidateRequestOf(preparedData) ==
    Obj(<<<<KeyPluginId, Str(<<112>>)>>, <<KeyInput, Arr(<<>>)>>,
          <<KeyPreparedData, preparedData>>, <<KeySignature, Str(<<115>>)>>>>)

\* body.preparedData of a decoded request
PropertyOf(x, key) ==
    IF \E i \in 1..Len(x.keys) : x.keys[i] = key
    THEN x.items[CHOOSE i \in 1..Len(x.keys) : x.keys[i] = key]
    ELSE Null

\* config/index.ts:72-77  the peer encodes the output of plugin.prepare
\* and signs the bytes.
CodecPrepare ==
    /\ codecPc = "start"
    /\ codecBytes' = encode(codecValue)
    /\ codecOtherBytes' = encode(codecOther)
    /\ codecSignature' = signData(encode(codecValue), CodecPeer)
    /\ codecPc' = "prepared"
    /\ UNCHANGED <<codecValue, codecOther, codecDecoded, codecStatus>>
    /\ UNCHANGED <<taskVars, served, registryVars, listenerVars, throttleVars,
                   webhookVars>>

\* core/task/client.ts:42  the primary decodes encodedData
CodecReceive ==
    /\ codecPc = "prepared"
    /\ codecDecoded' = decode(codecBytes)
    /\ codecPc' = "received"
    /\ UNCHANGED <<codecValue, codecOther, codecBytes, codecOtherBytes,
                   codecSignature, codecStatus>>
    /\ UNCHANGED <<taskVars, served, registryVars, listenerVars, throttleVars,
                   webhookVars>>

\* Task.ts:117-127, client.ts:56, util/http.ts:9-14 and
\* routes/taskValidate.ts:10-19  the primary sends the decoded output and
\* the peer's signature in an encoded request; the peer decodes the request
\* and checks the signature over encode(body.preparedData) under its own key.
CodecValidate ==
    /\ codecPc = "received"
    /\ IF ~TruthyValue(codecDecoded)
       THEN /\ codecPc' = "not_sent"
            /\ UNCHANGED codecStatus
       ELSE /\ codecPc' = "validated"
            /\ codecStatus' =
                 IF verifySignature(
                        encode(PropertyOf(decode(encode(ValidateRequestOf(codecDecoded))),
                                          KeyPreparedData)),
                        codecSignature, CodecPeer)
                 THEN 200 ELSE 400
    /\ UNCHANGED <<codecValue, codecOther, codecBytes, codecOtherBytes,
                   codecDecoded, codecSignature>>
    /\ UNCHANGED <<taskVars, served, registryVars, listenerVars, throttleVars,
                   webhookVars>>

InitCodec ==
    TaskParked /\ RegistryInit /\ ListenerParked /\ ThrottleParked /\ CodecInit
        /\ WebhookParked

NextCodec == CodecPrepare \/ CodecReceive \/ CodecValidate

SpecCodec == InitCodec /\ [][NextCodec]_vars

\* ------------------------------------------------- POST /helius/webhook
\* routes/heliusWebhook.ts:58-65  the three filters on the balance changes
PassesFilters(balance) ==
    /\ toLowerCase(balance.mint) \in {toLowerCase(m) : m \in trackedTokenMints}
    /\ balance.tokenAccount # balance.userAccount
    /\ balance.tokenAmount # "0"

\* routes/heliusWebhook.ts:70  the cache key of a transfer stands for its
\* userAccount alone
cacheKey(tokenTransfer) == tokenTransfer.userAccount

\* routes/heliusWebhook.ts:80-84  the input of the Task
TaskInput(tokenTransfer) ==
    [tokenMint |-> tokenTransfer.mint, userAccount |-> tokenTransfer.userAccount]

\* How the Task of a transfer can end: new Task throws, start() returns
\* err, start() returns ok.
WebhookTaskOutcomes == {"create_error", "start_error", "ok"}

\* routes/heliusWebhook.ts:47-67  the request is read, checked and filtered
WebhookReceive ==
    /\ whPc = "start"
    /\ IF ~whAuthorized
       THEN /\ whStatus' = 401
            /\ whPc' = "done"
            /\ UNCHANGED whQueue
       ELSE /\ whQueue' = SelectSeq(whChanges, PassesFilters)
            /\ whPc' = "loop"
            /\ UNCHANGED whStatus
    /\ UNCHANGED <<whAuthorized, whChanges, whCacheAtStart, whCache, whTasks>>
    /\ UNCHANGED <<taskVars, served, registryVars, listenerVars, throttleVars,
                   codecVars>>

\* routes/heliusWebhook.ts:69-106  one turn of the loop
WebhookTransfer(outcome) ==
    /\ whPc = "loop"
    /\ whQueue # <<>>
    /\ IF cacheKey(Head(whQueue)) \in whCache
       THEN /\ whQueue' = Tail(whQueue)
            /\ UNCHANGED <<whCache, whTasks, whPc, whStatus>>
       ELSE /\ whCache' = whCache \cup {cacheKey(Head(whQueue))}
            /\ IF outcome = "create_error"
               THEN /\ whStatus' = 500
                    /\ whPc' = "done"
                    /\ UNCHANGED <<whTasks, whQueue>>
               ELSE /\ whTasks' = Append(whTasks, TaskInput(Head(whQueue)))
                    /\ IF outcome = "start_error"
                       THEN /\ whStatus' = 500
                            /\ whPc' = "done"
                            /\ UNCHANGED whQueue
                       ELSE /\ whQueue' = Tail(whQueue)
                            /\ UNCHANGED <<whPc, whStatus>>
    /\ UNCHANGED <<whAuthorized, whChanges, whCacheAtStart>>
    /\ UNCHANGED <<taskVars, served, registryVars, listenerVars, throttleVars,
                   codecVars>>

\* routes/heliusWebhook.ts:108  the loop is through
WebhookRespond ==
    /\ whPc = "loop"
    /\ whQueue = <<>>
    /\ whStatus' = 200
    /\ whPc' = "done"
    /\ UNCHANGED <<whAuthorized, whChanges, whCacheAtStart, whCache, whQueue,
                   whTasks>>
    /\ UNCHANGED <<taskVars, served, registryVars, listenerVars, throttleVars,
                   codecVars>>

InitWebhook ==
    TaskParked /\ RegistryInit /\ ListenerParked /\ ThrottleParked /\ CodecParked
        /\ WebhookInit

NextWebhook ==
    \/ WebhookReceive
    \/ \E outcome \in WebhookTaskOutcomes : WebhookTransfer(outcome)
    \/ WebhookRespond

SpecWebhook == InitWebhook /\ [][NextWebhook]_vars

\* --------------------------------------------------------------- fairness
\* The local plugin calls return, the event loop runs the continuations of
\* settled promises, the armed timer fires and the route answers; nothing
\* in the code obliges a peer to answer a fetch.
Fairness ==
    /\ WF_vars(\E r \in LocalPrepareResults : LocalPrepare(r))
    /\ WF_vars(PrepareAllSettled)
    /\ WF_vars(PrepareTimeout)
    /\ WF_vars(\E r \in ProcessResults : Process(r))
    /\ WF_vars(\E v \in LocalValidateResults : LocalValidate(v))
    /\ WF_vars(\E status \in ExecuteOutcomes : Execute(status))
    /\ WF_vars(TaskCreateRespond)

SpecLive == Init /\ [][Next]_vars /\ Fairness

\* ================================================================ claims
CallsOf(s) == Cardinality({i \in 1..Len(calls) : calls[i].step = s})
ExecuteCalls == CallsOf("execute")
ProcessCalls == CallsOf("process")
IsErr(r, t) == r.kind = "err" /\ r.type = t

\* C1: plugin.execute is invoked only if the prepare records (the local one
\* included) carry at least minSignaturesRequired distinct public keys.
C1_ExecuteOnlyWithQuorum ==
    ExecuteCalls > 0 => Cardinality(KeySet(prepareResults)) >= minSignaturesRequired

C1_Witness ==
    /\ ExecuteCalls = 1
    /\ minSignaturesRequired >= 2
    /\ Cardinality(KeySet(prepareResults)) = minSignaturesRequired

\* C2: plugin.execute is invoked at most once during Task.start().
C2_ExecuteAtMostOnce == ExecuteCalls <= 1

C2_Witness == ExecuteCalls = 1 /\ pc = "done" /\ result.kind = "err"

\* C3: the steps of a Task happen in the order prepare, process, validate,
\* peer validates, execute; each step is invoked only after the step before
\* it returned ok, and once start() has returned an error no step is invoked.
Rank(c) ==
    CASE c.step = "prepare" -> 1
      [] c.step = "process" -> 2
      [] c.step = "validate" -> 3
      [] c.step = "peer_validate" -> 4
      [] c.step = "execute" -> 5

StepsInOrder ==
    /\ Len(oks) <= Len(calls)
    /\ Len(calls) <= Len(oks) + 1
    /\ \A i \in 1..Len(oks) : oks[i] = calls[i]
    /\ \A i \in 1..(Len(calls) - 1) :
          \/ Rank(calls[i]) < Rank(calls[i + 1])
          \/ calls[i].step = "peer_validate" /\ calls[i + 1].step = "peer_validate"
    /\ result.kind = "err" => pc = "done"

C3_StepOrder ==
    /\ []StepsInOrder
    /\ [][result.kind = "err" => calls' = calls]_vars

C3_Witness ==
    /\ ExecuteCalls = 1
    /\ result.kind = "ok"
    /\ Len(validateRequests) >= 2
    /\ oks = calls

\* C4: when the peer timeout fires while a peer prepare is outstanding, the
\* Task goes on to Process whenever the records that have arrived meet
\* minSignaturesRequired.
C4_TimeoutProceedsWithArrived ==
    (timerFired /\ collected >= minSignaturesRequired)
        => (pc = "process" \/ ProcessCalls > 0)

\* C5: if the Prepare phase ends with fewer than minSignaturesRequired
\* records, Task.start() returns insufficient_peers and neither process nor
\* execute is called.
C5_InsufficientPeers ==
    (prepareOutcome.kind = "ok" /\ collected >= 0 /\ collected < minSignaturesRequired)
        => (IsErr(result, "insufficient_peers") /\ ProcessCalls = 0 /\ ExecuteCalls = 0)

C7_VerifiedUnderPrimaryKey ==
    (served.node # -1 /\ served.status # 400)
        => verifySignature(EncodeString(served.preparedData), served.signature, Self)

\* C7 (amended): a /task/validate request is accepted only if its signature
\* over encode(preparedData) verifies under the public key of the node that
\* serves the request.
C7_VerifiedUnderOwnKey ==
    (served.node # -1 /\ served.status # 400)
        => verifySignature(EncodeString(served.preparedData), served.signature, served.node)

C7_Witness ==
    /\ served.status = 200
    /\ served.node \in Peers
    /\ served.signature = signData(EncodeString(served.preparedData), served.node)

\* C8: a peer's record is in the prepare records only if the signature of its
\* response verifies over the returned encodedData under that peer's key.
C8_RecordsCarryValidSignature ==
    \A i \in 1..Len(prepareResults) :
        prepareResults[i].publicKey # Self
            => verifySignature(EncodeString(prepareResults[i].data),
                               prepareResults[i].signature,
                               prepareResults[i].publicKey)

\* C9: if the local plugin.prepare returns permanent_error, start() returns
\* success with an empty output, no peer request is sent and process,
\* validate and execute are never called.
C9_PermanentErrorShortCircuit ==
    IsErr(prepareOutcome, "permanent_error")
        => /\ pc = "done"
           /\ result.kind = "ok" /\ result.value = Undefined
           /\ prepareRequests = {}
           /\ validateRequests = <<>>
           /\ calls = <<Step("prepare", Self)>>

C9_Witness == IsErr(prepareOutcome, "permanent_error") /\ pc = "done"

\* C10 (as stated): if plugin.process returns non_error, start() returns a
\* success, execute is not called and completed_tasks_total is unchanged.
C10_NonErrorIsSuccess ==
    IsErr(processOutcome, "non_error")
        => (result.kind = "ok" /\ ExecuteCalls = 0 /\ completedTasksTotal = 0)

\* C10 (amended): if plugin.process returns non_error, start() returns that
\* error, execute is not called and completed_tasks_total is unchanged.
C10_NonErrorReturned ==
    IsErr(processOutcome, "non_error")
        => (IsErr(result, "non_error") /\ pc = "done"
            /\ ExecuteCalls = 0 /\ completedTasksTotal = 0)

C10_Witness == IsErr(processOutcome, "non_error") /\ pc = "done"


\* C11: at every point of a Task each public key of the prepare records is
\* the local key or the key of a peer of config.peers, no key appears twice,
\* and plugin.process is handed at most one record per public key.
NoDuplicates(s) == \A i, j \in 1..Len(s) : s[i] = s[j] => i = j

C11_OneRecordPerKey ==
    /\ \A i \in 1..Len(prepareResults) :
          \/ prepareResults[i].publicKey = Self
          \/ \E k \in 1..Len(configPeers) : configPeers[k] = prepareResults[i].publicKey
    /\ NoDuplicates(PublicKeys(prepareResults))
    /\ NoDuplicates(processInput)
    /\ ProcessCalls > 0 => processInput = PublicKeys(prepareResults)

C11_Witness == ProcessCalls = 1 /\ Len(processInput) = NumPeers + 1

\* C12 as stated: the Validate phase contacts the contributing peers in the
\* order of config.peers whatever order their prepare responses arrived in,
\* so the artifact handed to execute is signed [A, B, C].
ConfigIndex(k) == CHOOSE i \in 1..Len(configPeers) : configPeers[i] = k

C12_VisitsInConfigOrder ==
    /\ \A i, j \in 1..Len(validateRequests) :
          i < j => ConfigIndex(validateRequests[i]) < ConfigIndex(validateRequests[j])
    /\ (ExecuteCalls > 0 /\ Len(executeInput) = NumPeers + 1)
          => executeInput = <<Self>> \o configPeers

\* C12 as the code has it: the Validate phase contacts the contributing
\* peers in the order their prepare records were pushed (the order their
\* responses arrived in), and the artifact handed to execute is signed by
\* the primary and then by the peers in that order.
ArrivalOrder == SelectSeq(PublicKeys(prepareResults), IsConfigPeer)

C12_VisitsInArrivalOrder ==
    /\ Len(validateRequests) <= Len(ArrivalOrder)
    /\ \A i \in 1..Len(validateRequests) : validateRequests[i] = ArrivalOrder[i]
    /\ ExecuteCalls > 0 => executeInput = <<Self>> \o ArrivalOrder

C12_Witness == ExecuteCalls = 1 /\ validateRequests = <<2, 1>>

\* C13: validation is a serial chain: the local validate runs first on the
\* output of process, each peer receives exactly the aggregate the previous
\* validator returned, at most one validate request is unanswered at a
\* time, and execute receives the aggregate of the last validator, signed
\* in visit order with the primary first.
PeerValidateSent == CallsOf("peer_validate")
PeerValidateOk == Cardinality({i \in 1..Len(oks) : oks[i].step = "peer_validate"})

C13_SerialChain ==
    /\ PeerValidateSent = Len(validateRequests)
    /\ PeerValidateSent - PeerValidateOk \in {0, 1}
    /\ inflight # NoRequest =>
          /\ PeerValidateSent - PeerValidateOk = 1
          /\ inflight.input = data
          /\ inflight.input =
                <<Self>> \o SubSeq(validateRequests, 1, Len(validateRequests) - 1)
    /\ ExecuteCalls > 0 =>
          /\ PeerValidateSent = PeerValidateOk
          /\ executeInput = <<Self>> \o validateRequests

C13_Witness == ExecuteCalls = 1 /\ Len(executeInput) = NumPeers + 1 /\ pc = "done"

\* C14: every Task.start() terminates, with success or with a terminal
\* error, provided the local plugin calls return, even if a configured peer
\* never answers a /task/prepare or a /task/validate request.
C14_StartTerminates == <>(pc = "done")

\* C15: POST /task answers 200 "OK" only when the Task it ran ended in
\* success, and answers a 5xx whenever Task.start() returned an error.
C15_OkOnlyOnSuccess ==
    /\ response = 200 => result.kind = "ok"
    /\ (response # 0 /\ result.kind = "err") => response >= 500

\* C16: Task.start() returns success only when all four phases returned ok
\* (a 409 of the chain counted as ok by execute) or when the local prepare
\* returned permanent_error; every other error of a phase is returned as
\* an error.
HasOk(s) == \E i \in 1..Len(oks) : oks[i].step = s
AllPhasesOk == HasOk("prepare") /\ HasOk("process") /\ HasOk("validate") /\ HasOk("execute")

C16_SuccessOnlyTwoWays ==
    pc = "done" =>
        /\ result.kind = "ok" <=> (AllPhasesOk \/ IsErr(prepareOutcome, "permanent_error"))
        /\ (~AllPhasesOk /\ ~IsErr(prepareOutcome, "permanent_error"))
              => result.kind \in {"err", "thrown"}
        /\ AllPhasesOk => submitted \in {Accepted, Duplicate}

C16_Witness ==
    pc = "done" /\ result.kind = "ok" /\ AllPhasesOk /\ submitted = Accepted

\* C17: the error Task.start() returns carries the tag produced at the
\* layer that failed: a local plugin error keeps its type, and a failed
\* /task/validate of a peer (signature rejected, or the peer's
\* plugin.validate returning an error) gives the Task error that same tag.
C17_ErrorKeepsLayerTag ==
    pc = "done" =>
        /\ (prepareOutcome.kind = "err" /\ prepareOutcome.type # "permanent_error")
              => IsErr(result, prepareOutcome.type)
        /\ processOutcome.kind = "err" => IsErr(result, processOutcome.type)
        /\ (result.kind = "err" /\ served.status = 500) => result.type = served.error
        /\ (result.kind = "err" /\ served.status = 400) => result.type = "validation_error"

\* C18 as stated: completed_tasks_total is incremented by exactly one for
\* every Task.start() that returns success and left unchanged by every
\* Task.start() that returns an error.
C18_CountsEverySuccess ==
    pc = "done" => completedTasksTotal = (IF result.kind = "ok" THEN 1 ELSE 0)

\* C18 as the code has it: completed_tasks_total is incremented by exactly
\* one when plugin.execute returned ok, and is left unchanged when
\* Task.start() returns an error and when it returns success because the
\* local prepare returned permanent_error.
C18_CountsCompletedExecute ==
    /\ completedTasksTotal = (IF HasOk("execute") THEN 1 ELSE 0)
    /\ pc = "done" =>
          /\ result.kind # "ok" => completedTasksTotal = 0
          /\ IsErr(prepareOutcome, "permanent_error") => completedTasksTotal = 0
          /\ (result.kind = "ok" /\ ~IsErr(prepareOutcome, "permanent_error"))
                => completedTasksTotal = 1

C18_Witness == pc = "done" /\ completedTasksTotal = 1 /\ result.kind = "ok"

C20_UnreachableQuorum ==
    (minSignaturesRequired > NumPeers + 1 /\ pc = "done" /\ prepareOutcome.kind = "ok")
        => IsErr(result, "insufficient_peers")

\* C21: with peerTimeoutMs configured as 0 no peer prepare is accepted: the
\* records of the Task are the local record alone, so plugin.process, when
\* it is reached, is given the local record only.
C21_ZeroTimeoutLocalOnly ==
    peerTimeoutMsOption = 0 =>
        /\ \A i \in 1..Len(prepareResults) : prepareResults[i].publicKey = Self
        /\ ProcessCalls > 0 => (processInput = <<Self>> /\ minSignaturesRequired <= 1)

\* C22: a peer prepare response that arrives after the prepare deadline
\* fired leaves the Task as it was: the result start() returned at the
\* deadline stays, no later phase runs on the records, and the step that
\* files the late record changes neither the result nor what Process,
\* Validate and Execute were given.
LateArrivals == timerFired /\ Len(prepareResults) > collected

C22_LateResponseDiscarded ==
    /\ [](timerFired =>
            /\ pc = "done"
            /\ IsErr(result, "timeout")
            /\ ProcessCalls = 0
            /\ processInput = <<>>
            /\ validateRequests = <<>>
            /\ ExecuteCalls = 0)
    /\ [][(timerFired /\ prepareResults' # prepareResults) =>
            /\ result' = result
            /\ pc' = pc
            /\ calls' = calls
            /\ data' = data
            /\ processInput' = processInput
            /\ executeInput' = executeInput]_vars

C22_Witness == LateArrivals /\ pc = "done" /\ IsErr(result, "timeout")

\* C23: for each registered listener at most one invocation of its run()
\* is in progress at any time, however long a run takes.
C23_OneRunAtATime ==
    \A l \in Listeners :
        /\ inProgress[l] <= 1
        /\ running[l] <=> inProgress[l] = 1

C23_Witness ==
    \E l \in Listeners : inProgress[l] = 1 /\ lastRun[l] # "none" /\ nextRunTime[l] = 0

\* C24: a run() is started only when the time has reached the nextRunTime
\* of the entry, which is the registration time before the first run and
\* the timestamp the last completed run() returned afterwards.
RunStarted(l) == inProgress'[l] > inProgress[l]
RunEnded(l) == inProgress'[l] < inProgress[l]

C24_StartedOnlyWhenDue ==
    /\ [](\A l \in Listeners :
            (registered[l] /\ lastRun[l] = "none") => nextRunTime[l] = 0)
    /\ [][\A l \in Listeners :
            /\ RunStarted(l) => nextRunTime[l] = 0
            /\ (RunEnded(l) /\ lastRun'[l] = "returned")
                  => nextRunTime'[l] = returned'[l]
            /\ (lastRun[l] = "returned" /\ ~RunEnded(l))
                  => nextRunTime'[l] <= nextRunTime[l]]_vars

C24_Witness ==
    \E l \in Listeners :
        running[l] /\ lastRun[l] = "returned" /\ returned[l] = MaxDelay

\* C25: when a run() throws, the running flag is cleared, the next run is
\* set one minute after the failure, the loop goes on and the listener is
\* run again once the minute has passed.
C25_ThrowReschedules ==
    /\ [][\A l \in Listeners :
            (RunEnded(l) /\ lastRun'[l] = "threw") =>
                /\ ~running'[l]
                /\ nextRunTime'[l] = OneMinute
                /\ monitored'[l] = monitored[l]]_vars
    /\ \A l \in Listeners :
          (lastRun[l] = "threw" /\ ~running[l]) ~> (running[l] /\ nextRunTime[l] = 0)

C25_Witness ==
    \E l \in Listeners : lastRun[l] = "threw" /\ running[l] /\ inProgress[l] = 1

\* C26: listeners are scheduled independently: a listener that is due is
\* started whatever the other listeners do, also while the run() of
\* another listener is slow, has thrown or never returns.
C26_IndependentListeners ==
    \A l \in Listeners :
        (monitored[l] /\ nextRunTime[l] = 0 /\ ~running[l]) ~> running[l]

C26_Witness ==
    \A l \in Listeners : running[l] /\ lastRun[l] = "none"

\* C27: every listener passed to register(), at whatever time relative to
\* start(), is eventually run.
C27_RegisteredEventuallyRun ==
    \A l \in Listeners : registered[l] ~> running[l]

\* C28: within one listener window events are handed to Tasks in ascending
\* (blockNumber, logIndex) order: no event is handed out after an event
\* with a greater (blockNumber, logIndex), and the input of a batched Task
\* lists its events in that order.
Ascending(q) ==
    \A i, j \in 1..Len(q) :
        i < j => \/ q[i].blockNumber < q[j].blockNumber
                 \/ (q[i].blockNumber = q[j].blockNumber /\ q[i].index < q[j].index)

C28_DispatchInLogOrder ==
    /\ Ascending(dispatchLog)
    /\ Ascending(lastBatch)
    /\ Ascending(dispatchLog \o sortedEvents)

C28_Witness ==
    /\ Len(dispatchLog) = 2
    /\ lastBatch = dispatchLog
    /\ lastBatch[1].blockNumber = lastBatch[2].blockNumber
    /\ sortedEvents # <<>>

C30_FailedEventRetried ==
    listenerPc = "idle" =>
        \A e \in failedEvents :
            e.blockNumber >= startBlock(lastSearchedBlockNumber, contractUnit)

\* ---------------------------------------------------------------- C37
IsPrefix(s, t) == Len(s) <= Len(t) /\ SubSeq(t, 1, Len(s)) = s

\* The keys of the steps of the Validate phase, in the order taken.
ValidateVisits ==
    LET steps == SelectSeq(calls, LAMBDA c : c.step \in {"validate", "peer_validate"})
    IN [i \in 1..Len(steps) |-> steps[i].peer]

\* C37: the list given to plugin.process starts with the local record and
\* goes on with the peers' records in the order their prepare responses
\* completed; the Validate phase visits the local plugin and then those
\* peers, once each, in that order, so that the aggregate that reaches
\* execute carries the signers in the order of the keys given to process.
C37_ProcessOrderIsSigningOrder ==
    /\ processInput # <<>> =>
          /\ processInput[1] = Self
          /\ Tail(processInput) = ArrivalOrder
          /\ NoDuplicates(processInput)
          /\ IsPrefix(ValidateVisits, processInput)
    /\ ExecuteCalls = 1 => executeInput = processInput

C37_Witness ==
    /\ ExecuteCalls = 1
    /\ Len(processInput) >= 3
    /\ SubSeq(processInput, 1, 3) = <<Self, 2, 1>>
    /\ executeInput = processInput

\* ---------------------------------------------------------------- C38
\* C38: the /task/validate request the primary sends for the output of an
\* honest peer is not answered with 400: the peer's own signature verifies
\* over encode(preparedData), re-encoded from the primary's decoded copy.
C38_HonestNeverRejected == codecPc = "validated" => codecStatus # 400

\* ---------------------------------------------------------------- C40
\* The peers whose requestPrepare resolved to an error: their promise
\* settled and they have no record.
FailedPeers == {p \in Peers : rpc[p] = "settled" /\ p \notin KeySet(prepareResults)}

\* Promise.all resolved before the timer: every promise settled.
AllSettled == collected # -1 /\ ~timerFired /\ \A p \in Peers : rpc[p] = "settled"

\* C40: a peer whose /task/prepare request failed has no record and does
\* not end the Task by itself: once every request has resolved, Process is
\* reached exactly when the records held, the local one included, are at
\* least minSignaturesRequired, and otherwise the Task ends with
\* insufficient_peers.
C40_FailedPeerOnlyCounts ==
    AllSettled =>
        /\ collected = Len(configPeers) + 1 - Cardinality(FailedPeers)
        /\ HasOk("prepare") <=> collected >= minSignaturesRequired
        /\ ~HasOk("prepare") => result = Err("insufficient_peers")

C40_Witness ==
    /\ AllSettled
    /\ Cardinality(FailedPeers) = 1
    /\ minSignaturesRequired = 2
    /\ ProcessCalls = 1

\* ---------------------------------------------------------------- C39
\* The event was handed to a Task that ended in success or non_error and
\* to none that failed since.
Delivered(e) == dispatchCount[e] > 0 /\ e \notin failedEvents

\* The blocks the next run will not scan again: those of the contract
\* before the start of the next window.
BehindCursor(e) ==
    /\ e.blockNumber >= contractUnit
    /\ e.blockNumber < startBlock(lastSearchedBlockNumber, contractUnit)

\* C39: between runs, every event of the contract in a block the cursor
\* has moved past was delivered: no event is left behind the cursor
\* without a Task that ended in success or non_error.
C39_CursorBehindUndelivered ==
    listenerPc = "idle" =>
        \A e \in chainEvents : BehindCursor(e) => Delivered(e)

\* ---------------------------------------------------------------- C31
\* C31: at every moment the starts of the wrapped function within the last
\* windowMs, the one just made included, are at most maxCallsPerSecond.
C31_AtMostLimitPerWindow == Len(startAges) <= maxCallsPerSecond

\* ---------------------------------------------------------------- C33
\* C33: the wrapped function is invoked at most twice for one call of
\* execute(): once, and once more after a 429.
C33_AtMostOneRetry == \A c \in Callers : invocations[c] <= 2

\* ---------------------------------------------------------------- C32
\* C32: a call that finds the window full waits inside acquireSlot and is
\* not dropped: fn is invoked for it later, and what execute() gives the
\* caller is what the last invocation of fn ended with.
C32_QueuedEventuallyInvoked ==
    /\ \A c \in Callers : (callerPc[c] = "acquiring") ~> (callerPc[c] = "calling")
    /\ [](\A c \in Callers :
            /\ queued[c] => callerPc[c] \in {"acquiring", "calling", "backoff",
                                            "returned", "thrown"}
            /\ callerPc[c] \in {"returned", "thrown"} =>
                  invocations[c] > 0 /\ returnedOutcome[c] = fnOutcome[c])

C32_Witness ==
    \E c \in Callers :
        /\ queued[c]
        /\ callerPc[c] = "returned"
        /\ invocations[c] = 1
        /\ returnedOutcome[c] = "ok"

\* ---------------------------------------------------------------- C34
\* C34: what the primary decodes from encode(x) is structurally equal to
\* x, for every value x of the grammar.
C34_RoundTrip ==
    codecPc = "received" => StructurallyEqual(codecDecoded, codecValue)

\* ---------------------------------------------------------------- C35
\* C35: two maps with the same entries, inserted in whatever order, encode
\* to the same bytes.
C35_SameEntriesSameBytes == codecPc = "prepared" => codecBytes = codecOtherBytes

\* ---------------------------------------------------------------- C36
\* The Tasks dispatched for a (mint, userAccount) pair.
TasksFor(mint, userAccount) ==
    Len(SelectSeq(whTasks, LAMBDA input :
            input.tokenMint = mint /\ input.userAccount = userAccount))

\* C36: when an authorized request is answered with 200, every accepted
\* balance change whose userAccount was not in the dedup cache has exactly
\* one Task for its (mint, userAccount) pair.
C36_OneTaskPerPair ==
    whPc = "done" /\ whStatus = 200 =>
        \A i \in 1..Len(whChanges) :
            PassesFilters(whChanges[i]) /\ cacheKey(whChanges[i]) \notin whCacheAtStart
                => TasksFor(whChanges[i].mint, whChanges[i].userAccount) = 1

====
